---- MODULE Spec2Model ----
(***************************************************************************)
(* In-place rollout of a MachineDeployment (pkg/controller/                *)
(* deployment_inplace.go).  One rolloutAutoInPlace run is one action: it   *)
(* is computed by the operators below on a run record R that holds the     *)
(* API-server objects, the lister view, the MachineSet objects the run     *)
(* holds, and the log of the mutations it issued.  The taints, the         *)
(* autoscaler annotations and the deployment status that the run also      *)
(* writes are left out: nothing modelled here reads them.                  *)
(*                                                                         *)
(* The machine controller (pkg/util/provider/machinecontroller) reconciles *)
(* one Machine against a fake driver and a fake API server, as the tables  *)
(* of machine_test.go drive it: triggerCreationFlow, triggerDeletionFlow,  *)
(* updateMachineState, checkMachineTimeout and isHealthy are one action    *)
(* each.  The mode without a target cluster and the volume attachments are *)
(* left out.                                                               *)
(***************************************************************************)
EXTENDS Integers, Sequences, FiniteSets, TLC

DeploymentReplicas == 3   \* deployment.Spec.Replicas; one Node per Machine
NumMachineSets == 3       \* MachineSets of the deployment; the newest is the new one
MaxFaults == 2            \* API calls that fail, over a behaviour
MaxRuns == 4              \* consecutive runs with nothing happening in between

Machines == 1..DeploymentReplicas
MachineSets == 1..NumMachineSets

VARIABLES
    order,           \* live MachineSets by creation time; the last is the new one
    rep,             \* MachineSet -> spec.replicas
    skip,            \* MachineSets labeled skip-update=true
    mach,            \* Machine -> [ms, owners, hasNode, cand, sel, us]
    node,            \* Node -> [cand, sel, us, unsched]
    avail,           \* Machines that are available (Running, ready)
    maxUnavailable,  \* MaxUnavailable(deployment), resolved
    faults,          \* API failures injected so far
    hist,            \* what the last rolloutAutoInPlace did
    machine,         \* the Machine object machine-0
    fakeDriver,      \* driver.FakeDriver: [VMExists, Err]
    targetNode,      \* the Node object of the machine in the target cluster
    clientFails,     \* customfake.ResourceActions: Node Update returns an error
    ret              \* what the last call of the machine controller returned

\* the objects of the deployment controller and of the machine controller
dvars == <<order, rep, skip, mach, node, avail, maxUnavailable,
           faults, hist>>

mvars == <<machine, fakeDriver, targetNode, clientFails, ret>>

vars == <<dvars, mvars>>

\* ---------------------------------------------------------------- helpers

Last(s) == s[Len(s)]

Front(s) == SubSeq(s, 1, Len(s) - 1)

Reverse(s) == [k \in 1..Len(s) |-> s[Len(s) + 1 - k]]

Min(a, b) == IF a < b THEN a ELSE b

Range(s) == {s[i] : i \in 1..Len(s)}

RECURSIVE SumOver(_, _)
SumOver(f, s) == IF s = <<>> THEN 0 ELSE f[s[1]] + SumOver(f, Tail(s))

\* available(new MS) + available(old-MS machines not selected for update)
Budget(m, av, new) ==
    Cardinality({i \in Machines : i \in av /\ (m[i].ms = new \/ ~m[i].sel)})

\* MachineSet.Status.AvailableReplicas as the MachineSet controller publishes it
AvailableReplicas(m, av) ==
    [s \in MachineSets |-> Cardinality({i \in Machines : m[i].ms = s /\ i \in av})]

\* ------------------------------------------------------- the run record R
\* R.m, R.n, R.rep, R.skip: the objects at the API server.  R.cm, R.cn: what
\* the listers return, the objects as the informer cache had them when the run
\* started (the run's own writes reach the cache after it; a Node object the
\* run changed in place shows the change).  R.lrep, R.lavail: spec.replicas and
\* status.availableReplicas of the MachineSet objects the run was handed.

\* machineLister.List(selector of ms), in the lister's order
ListMachines(R, s) == SelectSeq(R.lorder, LAMBDA i : R.cm[i].ms = s)

\* every client call is numbered; the calls in R.failAt return an error
Failed(R) == (R.calls + 1) \in R.failAt

\* a mutation as the log keeps it: the object before and after, and the
\* availability budget right after it
Event(R, m, op, x, was, now) ==
    [op |-> op, x |-> x, was |-> was, now |-> now,
     bud |-> Budget(m, R.avail, R.new)]

\* machineControl.PatchMachine: a merge patch, no resourceVersion precondition
PatchMachine(R, i, obj, op) ==
    IF Failed(R) THEN [R EXCEPT !.calls = @ + 1, !.err = TRUE]
    ELSE [R EXCEPT !.calls = @ + 1, !.m[i] = obj,
                   !.log = Append(@, Event(R, [R.m EXCEPT ![i] = obj],
                                           op, i, R.m[i], obj))]

\* Nodes().Update: the whole object, refused when the copy sent is outdated.
\* inplace: the caller changed the lister's object itself, not a DeepCopy
UpdateNode(R, i, obj, inplace) ==
    IF Failed(R) \/ i \in R.ndirty
    THEN [R EXCEPT !.calls = @ + 1, !.err = TRUE,
                   !.cn[i] = IF inplace THEN obj ELSE @]
    ELSE [R EXCEPT !.calls = @ + 1, !.n[i] = obj,
                   !.cn[i] = IF inplace THEN obj ELSE @,
                   !.ndirty = IF obj = R.n[i] THEN @ ELSE @ \cup {i}]

\* scaleMachineSet: MachineSets().Update of a copy of the object the caller
\* holds, with spec.replicas = newScale; the caller's object stays as it was
scaleMachineSet(R, s, newScale) ==
    IF Failed(R) \/ s \in R.dirty
    THEN [R EXCEPT !.calls = @ + 1, !.err = TRUE, !.scaled = FALSE]
    ELSE [R EXCEPT !.calls = @ + 1, !.rep[s] = newScale,
                   !.dirty = @ \cup {s}, !.scaled = TRUE,
                   !.log = Append(@,
                       Event(R, R.m, IF newScale > R.lrep[s] THEN "up" ELSE "down",
                             s, R.rep[s], newScale))]

\* scaleMachineSetAndRecordEvent: nothing to do when the MachineSet object the
\* caller holds already has newScale; otherwise an Update of that object
scaleMachineSetAndRecordEvent(R, s, newScale) ==
    IF R.lrep[s] = newScale THEN [R EXCEPT !.scaled = FALSE]
    ELSE scaleMachineSet(R, s, newScale)

\* a JSON merge patch {"metadata":{"labels":{...}}} built from the labels lbl of
\* the lister's copy: every key of lbl is written, no key is removed
MergeLabels(obj, lbl) ==
    [obj EXCEPT !.ms = lbl.ms,
                !.hasNode = @ \/ lbl.hasNode,
                !.cand = @ \/ lbl.cand,
                !.sel = @ \/ lbl.sel,
                !.us = @ \/ lbl.us]


\* ------------------------------------------ machine controller: the objects

MachineCreationTimeout == 20   \* minutes (safety options of the controller)
MachineHealthTimeout == 10
MachineDrainTimeout == 5
nodeNotReadyDuration == 5      \* a node not ready this long is drained by force
TickMinutes == 11              \* the clock is read every TickMinutes minutes

\* the steps of the deletion flow, as machineutils names them, in order
DeletionSteps == <<"GetVMStatus", "InitiateDrain", "DelVolumesAttachments",
                   "InitiateVMDeletion", "InitiateNodeDeletion",
                   "InitiateFinalizerRemoval">>

ConditionTypes == {"Ready", "ReadonlyFilesystem", "KernelDeadlock",
                   "DiskPressure", "NetworkUnavailable", "MemoryPressure"}

\* controller.nodeConditions: the condition types that make a machine unhealthy
nodeConditions == {"ReadonlyFilesystem", "KernelDeadlock", "DiskPressure",
                   "NetworkUnavailable"}

\* "" is a condition the machine does not carry
ConditionStatus == {"", "True", "False", "Unknown"}

\* machine.Status.LastOperation; the description is a message followed by the
\* step of the deletion flow that comes next ("" outside the deletion flow)
LastOperation(msg, next, state, type, code) ==
    [msg |-> msg, next |-> next, state |-> state, type |-> type,
     errorCode |-> code]

\* the conditions of the fixture of the isHealthy table; Ready is set by
\* updateMachineState when the node has joined
NoConditions == [c \in ConditionTypes |-> ""]

\* newMachine of the test suite: a Machine just created, with nothing in its
\* status; the ages are minutes since the timestamp, -1 a timestamp not set
newMachine(addFinalizer, force) ==
    [exists |-> TRUE,
     finalizers |-> addFinalizer,
     force |-> force,
     providerID |-> "",
     nodeLabel |-> "",
     phase |-> "",
     lastOperation |-> LastOperation("", "", "", "", ""),
     conditions |-> NoConditions,
     readyAge |-> 0,
     rofsAge |-> 0,
     creationAge |-> 0,
     deletionAge |-> -1,
     lastUpdateAge |-> 0]

NoReturn == [op |-> "", retry |-> "", err |-> "", healthy |-> FALSE,
             step |-> "", calls |-> {}, done |-> {}, reconciles |-> 0]

\* the deployment controller runs alone: no Machine is reconciled
MachineControllerAtRest ==
    /\ machine = newMachine(FALSE, FALSE)
    /\ fakeDriver = [VMExists |-> FALSE, Err |-> ""]
    /\ targetNode = [exists |-> FALSE, terminationCondition |-> FALSE]
    /\ clientFails = FALSE
    /\ ret = NoReturn

\* isHealthy, had it looked at every condition the machine carries
isHealthyEveryCondition(m) ==
    /\ m.conditions["Ready"] = "True"
    /\ \A c \in ConditionTypes \ {"Ready"} : m.conditions[c] \in {"", "False"}

\* isHealthy: the machine carries Ready=True and none of the conditions of
\* nodeConditions that it carries has a status other than False
isHealthy(m) ==
    /\ m.conditions["Ready"] = "True"
    /\ \A c \in nodeConditions : m.conditions[c] \in {"", "False"}
\* ------------------------------------------------------ labelMachineSets

\* PatchMachineSet with the skip-update label
labelMachineSet(R, s) ==
    IF Failed(R) THEN [R EXCEPT !.calls = @ + 1, !.err = TRUE]
    ELSE [R EXCEPT !.calls = @ + 1, !.skip = @ \cup {s},
                   !.dirty = IF s \in R.skip THEN @ ELSE @ \cup {s}]

RECURSIVE labelMachineSets(_, _)
labelMachineSets(R, iss) ==
    IF iss = <<>> \/ R.err THEN R
    ELSE labelMachineSets(labelMachineSet(R, iss[1]), Tail(iss))

\* ------------------------------------------ labelNodesBackingMachineSets

\* the machine is labeled, its node is not
labelNodeCandidateSkipped(R, i) == R

labelNodeCandidate(R, i) ==
    IF R.err \/ R.cn[i].cand THEN R
    ELSE UpdateNode(R, i, [R.cn[i] EXCEPT !.cand = TRUE], FALSE)

labelCandidate(R, i) ==
    IF ~R.cm[i].hasNode THEN R
    ELSE labelNodeCandidate(
             PatchMachine(R, i,
                 MergeLabels(R.m[i], [R.cm[i] EXCEPT !.cand = TRUE]),
                 "candidate"),
             i)

RECURSIVE labelCandidates(_, _)
labelCandidates(R, ms) ==
    IF ms = <<>> \/ R.err THEN R
    ELSE labelCandidates(labelCandidate(R, ms[1]), Tail(ms))

RECURSIVE labelNodesBackingMachineSets(_, _)
labelNodesBackingMachineSets(R, iss) ==
    IF iss = <<>> \/ R.err THEN R
    ELSE labelNodesBackingMachineSets(
             labelCandidates(R, ListMachines(R, iss[1])), Tail(iss))

\* ------------------------------------------------------- syncMachineSets

filterMachinesWithUpdateSuccessfulLabel(R, ms) ==
    SelectSeq(ms, LAMBDA i : R.cm[i].us)

syncScaleUpNew(R, machines, withLabel) ==
    IF Len(machines) > R.lrep[R.new] /\ Len(withLabel) > 0
    THEN scaleMachineSetAndRecordEvent(R, R.new,
             R.lrep[R.new] + Min(Len(withLabel), Len(machines) - R.lrep[R.new]))
    ELSE R

\* removeLabels: selected-for-update, drain-successful, update-successful
syncRemoveLabel(R, i) ==
    PatchMachine(R, i, [R.m[i] EXCEPT !.sel = FALSE, !.us = FALSE], "clean")

RECURSIVE syncRemoveLabels(_, _)
syncRemoveLabels(R, ms) ==
    IF ms = <<>> \/ R.err THEN R
    ELSE syncRemoveLabels(syncRemoveLabel(R, ms[1]), Tail(ms))

\* a node update that removes the labels and leaves spec.unschedulable
syncUncordonNodeLabelsOnly(R, i) ==
    IF ~R.cm[i].hasNode THEN [R EXCEPT !.err = TRUE]
    ELSE UpdateNode(R, i, [R.cn[i] EXCEPT !.us = FALSE], TRUE)

\* a machine without node label is passed over
syncUncordonNodeIfAny(R, i) ==
    IF ~R.cm[i].hasNode THEN R
    ELSE UpdateNode(R, i, [R.cn[i] EXCEPT !.us = FALSE, !.unsched = FALSE], TRUE)

\* the lister's Node object loses update-successful and ready-for-update, is
\* made schedulable, and is sent
syncUncordonNode(R, i) ==
    IF ~R.cm[i].hasNode THEN [R EXCEPT !.err = TRUE]
    ELSE UpdateNode(R, i, [R.cn[i] EXCEPT !.us = FALSE, !.unsched = FALSE], TRUE)

RECURSIVE syncUncordon(_, _)
syncUncordon(R, ms) ==
    IF ms = <<>> \/ R.err THEN R
    ELSE syncUncordon(syncUncordonNode(R, ms[1]), Tail(ms))

\* an old MachineSet keeps its replicas whatever the lister shows
syncScaleDownOldSkipped(R, s) == R

syncScaleDownOld(R, s) ==
    IF Len(ListMachines(R, s)) < R.lrep[s]
    THEN scaleMachineSetAndRecordEvent(R, s, Len(ListMachines(R, s)))
    ELSE R

RECURSIVE syncScaleDownOlds(_, _)
syncScaleDownOlds(R, iss) ==
    IF iss = <<>> \/ R.err THEN R
    ELSE syncScaleDownOlds(syncScaleDownOld(R, iss[1]), Tail(iss))

syncMachineSets(R, oldISs) ==
    syncScaleDownOlds(
        syncUncordon(
            syncRemoveLabels(
                syncScaleUpNew(R, ListMachines(R, R.new),
                    filterMachinesWithUpdateSuccessfulLabel(R,
                        ListMachines(R, R.new))),
                filterMachinesWithUpdateSuccessfulLabel(R, ListMachines(R, R.new))),
            ListMachines(R, R.new)),
        oldISs)

\* ----------------------------------------- reconcileNewMachineSetInPlace

\* getMachineFromNode: the machine of the list whose node label names the node
getMachineFromNode(R, machines, j) ==
    j \in Range(machines) /\ R.cm[j].hasNode

\* an ownership patch that adds the reference to the new MachineSet to the
\* references the machine has
transferPatchAdding(R, j) ==
    [MergeLabels(R.m[j], [R.cm[j] EXCEPT !.ms = R.new, !.us = TRUE])
        EXCEPT !.owners = @ \cup {R.new}]

\* the ownership patch: labels of the machine with the old selector's keys
\* replaced by the new selector's, plus update-successful; ownerReferences
\* replaced by the single controller reference to the new MachineSet
transferPatch(R, j) ==
    [MergeLabels(R.m[j], [R.cm[j] EXCEPT !.ms = R.new, !.us = TRUE])
        EXCEPT !.owners = {R.new}]

\* the outcome of the branch for a failed ownership patch of a machine of s:
\* k machines were added to the new MachineSet, j of them taken from s
PatchFailure(R, s, accepted) ==
    [called |-> TRUE, s |-> s, k |-> R.added, j |-> R.transferred,
     accepted |-> accepted]

rescaledDown(B, s, scaled) ==
    IF B.err THEN [B EXCEPT !.scaled = B.added > 0,
                            !.pf = PatchFailure(B, s, FALSE)]
    ELSE [B EXCEPT !.scaled = scaled, !.err = TRUE,
                   !.pf = PatchFailure(B, s, TRUE)]

\* the failure branch, were the old MachineSet scaled down by the machines
\* added to the new one
rescaledUpByAdded(A, s) ==
    IF A.err THEN [A EXCEPT !.scaled = A.added > 0,
                            !.pf = PatchFailure(A, s, FALSE)]
    ELSE rescaledDown(
             scaleMachineSetAndRecordEvent(A, s, A.lrep[s] - A.added),
             s, A.scaled)

rescaledUp(A, s) ==
    IF A.err THEN [A EXCEPT !.scaled = A.added > 0,
                            !.pf = PatchFailure(A, s, FALSE)]
    ELSE rescaledDown(
             scaleMachineSetAndRecordEvent(A, s, A.lrep[s] - A.transferred),
             s, A.scaled)

\* the branch taken when the ownership patch fails
transferFailed(R, s) ==
    rescaledUp(
        scaleMachineSetAndRecordEvent([R EXCEPT !.err = FALSE], R.new,
                                      R.lrep[R.new] + R.added),
        s)

\* an uncordon after which only the old MachineSet's counter is advanced
uncordonedOldOnly(U, s, j) ==
    IF U.err THEN [U EXCEPT !.scaled = FALSE,
                            !.uf = [called |-> TRUE, s |-> s, j |-> j]]
    ELSE [U EXCEPT !.transferred = @ + 1]

\* after the Update that uncordons the node of machine j, transferred from s:
\* on an error the call returns false and the error, the patch stays
uncordoned(U, s, j) ==
    IF U.err THEN [U EXCEPT !.scaled = FALSE,
                            !.uf = [called |-> TRUE, s |-> s, j |-> j]]
    ELSE [U EXCEPT !.transferred = @ + 1, !.added = @ + 1]

patched(P, s, j) ==
    IF P.err THEN transferFailed(P, s)
    ELSE uncordoned(UpdateNode(P, j, [P.cn[j] EXCEPT !.unsched = FALSE], TRUE),
                    s, j)

transferMachine(R, s, machines, j) ==
    IF ~getMachineFromNode(R, machines, j) THEN R
    ELSE patched(PatchMachine([R EXCEPT !.tp = @ \cup {R.calls + 1}], j,
                              transferPatch(R, j), "transfer"),
                 s, j)

RECURSIVE transferMachines(_, _, _, _)
transferMachines(R, s, machines, nodes) ==
    IF nodes = <<>> \/ R.err THEN R
    ELSE transferMachines(transferMachine(R, s, machines, nodes[1]),
                          s, machines, Tail(nodes))

oldScaledDown(D) ==
    IF D.err THEN [D EXCEPT !.scaled = D.added > 0] ELSE D

transferred(T, s) ==
    IF T.err THEN T
    ELSE oldScaledDown(
             scaleMachineSetAndRecordEvent(T, s, T.lrep[s] - T.transferred))

\* one round of the loop over the old MachineSets
harvestMachineSet(R, s) ==
    transferred(
        transferMachines([R EXCEPT !.transferred = 0], s, ListMachines(R, s),
                         SelectSeq(R.lorder, LAMBDA j : R.cn[j].us)),
        s)

RECURSIVE harvestMachineSets(_, _)
harvestMachineSets(R, iss) ==
    IF iss = <<>> \/ R.err THEN R
    ELSE harvestMachineSets(harvestMachineSet(R, iss[1]), Tail(iss))

harvested(H) ==
    IF H.err THEN H
    ELSE scaleMachineSetAndRecordEvent(H, H.new, H.lrep[H.new] + H.added)

reconcileNewMachineSetInPlace(R, oldISs) ==
    IF R.lrep[R.new] = R.d THEN [R EXCEPT !.scaled = FALSE]
    ELSE IF R.lrep[R.new] > R.d THEN scaleMachineSetAndRecordEvent(R, R.new, R.d)
    ELSE harvested(harvestMachineSets([R EXCEPT !.added = 0], oldISs))

\* ---------------------------------------- reconcileOldMachineSetsInPlace

\* a count that misses the machines already selected
noneUndergoingUpdate(R, oldISs) == 0

getMachinesUndergoingUpdate(R, oldISs) ==
    Len(SelectSeq(R.lorder,
                  LAMBDA i : R.cm[i].ms \in Range(oldISs) /\ R.cm[i].sel))

\* the candidates of the MachineSet, those already selected among them
getMachinesForDrainUnfiltered(R, s, readyForDrain) ==
    LET machines == SelectSeq(ListMachines(R, s), LAMBDA i : R.cm[i].cand)
    IN  IF Len(machines) > readyForDrain
        THEN SubSeq(machines, 1, readyForDrain)
        ELSE machines

getMachinesForDrain(R, s, readyForDrain) ==
    LET machines == SelectSeq(ListMachines(R, s), LAMBDA i : R.cm[i].cand)
        machinesWithoutSelectedForUpdate ==
            SelectSeq(machines, LAMBDA i : ~R.cm[i].sel)
    IN  IF Len(machinesWithoutSelectedForUpdate) > readyForDrain
        THEN SubSeq(machinesWithoutSelectedForUpdate, 1, readyForDrain)
        ELSE machinesWithoutSelectedForUpdate

\* machinesSelectedForUpdate++
counted(U) == IF U.err THEN U ELSE [U EXCEPT !.cnt = @ + 1]

\* after the patch that labels the machine: its node is labeled and the machine
\* counted, unless the node carries the label already
selectPatched(P, i) ==
    IF P.err THEN P
    ELSE IF ~P.cm[i].hasNode THEN counted(P)
    ELSE IF P.cn[i].sel THEN P
    ELSE counted(UpdateNode(P, i, [P.cn[i] EXCEPT !.sel = TRUE], FALSE))

labelMachineSelected(R, i) ==
    selectPatched(
        PatchMachine(R, i, MergeLabels(R.m[i], [R.cm[i] EXCEPT !.sel = TRUE]),
                     "select"),
        i)

RECURSIVE labelMachinesSelected(_, _)
labelMachinesSelected(R, ms) ==
    IF ms = <<>> \/ R.err THEN R
    ELSE labelMachinesSelected(labelMachineSelected(R, ms[1]), Tail(ms))

labelMachinesToSelectedForUpdate(R, s, newScale) ==
    labelMachinesSelected([R EXCEPT !.cnt = 0],
                          getMachinesForDrain(R, s, R.lrep[s] - newScale))

\* sort.Sort(MachineSetsByCreationTimestamp(oldISs))
MachineSetsByCreationTimestamp(R, iss) ==
    SelectSeq(R.order, LAMBDA s : s \in Range(iss))

\* totalReadyForUpdate += machinesSelectedForUpdate
totalled(L) == [L EXCEPT !.total = @ + L.cnt]

selectFromMachineSet(R, targetIS, totalReadyForUpdateCount) ==
    IF R.lrep[targetIS] = 0 THEN R
    ELSE totalled(
             labelMachinesToSelectedForUpdate(R, targetIS,
                 R.lrep[targetIS]
                     - Min(R.lrep[targetIS], totalReadyForUpdateCount - R.total)))

RECURSIVE selectFromMachineSets(_, _, _)
selectFromMachineSets(R, iss, totalReadyForUpdateCount) ==
    IF iss = <<>> \/ R.err \/ R.total >= totalReadyForUpdateCount THEN R
    ELSE selectFromMachineSets(
             selectFromMachineSet(R, iss[1], totalReadyForUpdateCount),
             Tail(iss), totalReadyForUpdateCount)

selectMachineForUpdate(R, allISs, oldISs, oldISsMachinesUndergoingUpdate) ==
    LET minAvailable == R.d - R.mu
        availableMachineCount ==
            SumOver(R.lavail, allISs) - oldISsMachinesUndergoingUpdate
    IN  IF availableMachineCount <= minAvailable THEN [R EXCEPT !.total = 0]
        ELSE selectFromMachineSets([R EXCEPT !.total = 0],
                 MachineSetsByCreationTimestamp(R, oldISs),
                 availableMachineCount - minAvailable)

RECURSIVE scaleOldToZero(_, _)
scaleOldToZero(R, iss) ==
    IF iss = <<>> \/ R.err THEN R
    ELSE scaleOldToZero(scaleMachineSetAndRecordEvent(R, iss[1], 0), Tail(iss))

maxUpdatePossible(R, allISs, oldISs) ==
    SumOver(R.lrep, allISs) - (R.d - R.mu)
        - (R.lrep[R.new] - R.lavail[R.new])
        - getMachinesUndergoingUpdate(R, oldISs)

\* return true, nil after the loop that scales the old MachineSets to zero
zeroed(Z) == [Z EXCEPT !.scaled = ~Z.err]

\* return machinesSelectedForUpdate > 0, nil
selected(S) == [S EXCEPT !.scaled = ~S.err /\ S.total > 0]

\* R.scaled is the boolean the function returns
reconcileOldMachineSetsInPlace(R, allISs, oldISs) ==
    IF SumOver(R.lrep, oldISs) = 0 THEN [R EXCEPT !.scaled = FALSE]
    ELSE IF R.lrep[R.new] = R.d THEN zeroed(scaleOldToZero(R, oldISs))
    ELSE IF maxUpdatePossible(R, allISs, oldISs) <= 0
    THEN [R EXCEPT !.scaled = FALSE]
    ELSE selected(selectMachineForUpdate(R, allISs, oldISs,
                      getMachinesUndergoingUpdate(R, oldISs)))

\* --------------------------------------------------- rolloutAutoInPlace

machineSetsScaledToZero(R, iss) == \A s \in Range(iss) : R.lrep[s] = 0

FilterActiveMachineSets(R, iss) == SelectSeq(iss, LAMBDA s : R.lrep[s] > 0)

\* MachineDeploymentComplete: new MS at the desired count, all of it available,
\* nothing left in the old MSs
MachineDeploymentComplete(R, oldISs) ==
    /\ R.lrep[R.new] = R.d
    /\ R.lavail[R.new] = R.d
    /\ SumOver(R.lrep, oldISs) = 0

\* cleanupMachineDeployment: old MSs without replicas and machines are deleted
cleanupMachineDeployment(R, oldISs) ==
    [R EXCEPT !.order = SelectSeq(@, LAMBDA s :
                  ~(/\ s \in Range(oldISs)
                    /\ R.lrep[s] = 0
                    /\ \A i \in Machines : R.cm[i].ms # s)),
              !.skip = {s \in @ :
                  ~(/\ s \in Range(oldISs)
                    /\ R.lrep[s] = 0
                    /\ \A i \in Machines : R.cm[i].ms # s)}]

\* what the checked properties read of the record before and after a sub-call
Snapshot(R) == [rep |-> R.rep, lrep |-> R.lrep, lavail |-> R.lavail,
                m |-> R.m, n |-> R.n,
                lm |-> R.cm, ln |-> R.cn, err |-> R.err, scaled |-> R.scaled,
                log |-> Len(R.log), skip |-> R.skip, order |-> R.order]

\* the second syncMachineSets and what follows it
synced(F, oldISs) ==
    IF F.err THEN F
    ELSE IF MachineDeploymentComplete(F, oldISs)
    THEN cleanupMachineDeployment(F, oldISs)
    ELSE F

recordOld(R, E, oldISs) ==
    [E EXCEPT !.ro = [called |-> TRUE, pre |-> Snapshot(R), post |-> Snapshot(E),
                      total |-> E.total]]

oldReconciled(E, oldISs) ==
    IF E.err \/ E.scaled THEN E
    ELSE synced(syncMachineSets(E, oldISs), oldISs)

\* from "prepare old ISs for update" on
rolloutTail(D, oldISs) ==
    oldReconciled(
        recordOld(D,
            reconcileOldMachineSetsInPlace(D, oldISs \o <<D.new>>,
                FilterActiveMachineSets(D, oldISs)),
            oldISs),
        oldISs)

recordNew(C, D) ==
    [D EXCEPT !.rn = [called |-> TRUE, pre |-> Snapshot(C), post |-> Snapshot(D)]]

newReconciled(D, oldISs) ==
    IF D.err \/ D.scaled THEN D ELSE rolloutTail(D, oldISs)

firstSynced(C, oldISs) ==
    IF C.err THEN C
    ELSE newReconciled(
             recordNew(C, reconcileNewMachineSetInPlace(C, oldISs)), oldISs)

recordSync(B, C) ==
    [C EXCEPT !.sy = [called |-> TRUE, pre |-> Snapshot(B), post |-> Snapshot(C)]]

candidatesLabeled(B, oldISs) ==
    IF B.err THEN B
    ELSE firstSynced(recordSync(B, syncMachineSets(B, oldISs)), oldISs)

recordLabeled(A, B) ==
    [B EXCEPT !.lb = [called |-> TRUE, pre |-> Snapshot(A), post |-> Snapshot(B)]]

skipLabeled(A, oldISs) ==
    IF A.err THEN A
    ELSE candidatesLabeled(
             recordLabeled(A, labelNodesBackingMachineSets(A, oldISs)), oldISs)

\* a run that goes on without the skip-update label on the old MachineSets
rolloutAutoInPlaceUnlabeled(R, oldISs) == skipLabeled(R, oldISs)

rolloutAutoInPlace(R, oldISs) ==
    skipLabeled(
        IF Len(oldISs) > 0 /\ ~machineSetsScaledToZero(R, oldISs)
        THEN labelMachineSets(R, oldISs) ELSE R,
        oldISs)

\* ------------------------------------------------------------ the system

NotCalled == [called |-> FALSE]

\* hist when no run has just returned
NoRun == [quiet |-> FALSE, runs |-> 0, clean |-> 0, faulty |-> FALSE,
          err |-> FALSE,
          log |-> <<>>,
          rn |-> NotCalled, ro |-> NotCalled, pf |-> NotCalled,
          uf |-> NotCalled, lb |-> NotCalled, sy |-> NotCalled,
          sets |-> NotCalled, pend |-> {}, had |-> <<>>]

St == [order |-> order, rep |-> rep, skip |-> skip, mach |-> mach,
       node |-> node, avail |-> avail, mu |-> maxUnavailable]

\* the record a run starts from: informer caches and MachineSet objects are
\* those of the API server at that moment
Start(st, in) ==
    [order |-> st.order, new |-> Last(st.order), d |-> DeploymentReplicas,
     mu |-> st.mu, rep |-> st.rep, lrep |-> st.rep,
     lavail |-> AvailableReplicas(st.mach, st.avail), skip |-> st.skip,
     dirty |-> {}, ndirty |-> {}, m |-> st.mach, cm |-> st.mach,
     n |-> st.node, cn |-> st.node, avail |-> st.avail,
     lorder |-> in.lorder, failAt |-> in.failAt,
     calls |-> 0, tp |-> {}, err |-> FALSE, scaled |-> FALSE, log |-> <<>>,
     added |-> 0, transferred |-> 0, cnt |-> 0, total |-> 0,
     rn |-> NotCalled, ro |-> NotCalled, pf |-> NotCalled, uf |-> NotCalled,
     lb |-> NotCalled, sy |-> NotCalled]

Run(st, in) == rolloutAutoInPlace(Start(st, in), in.oldISs)

\* the listers return the machines in name order or in the reverse order
ListerOrders ==
    {[i \in Machines |-> i], [i \in Machines |-> DeploymentReplicas + 1 - i]}

\* the old MachineSets are handed over oldest first or newest first
BaseInputs(st) ==
    [lorder : ListerOrders,
     oldISs : {Front(st.order), Reverse(Front(st.order))}, failAt : {{}}]

\* the calls that fail in a run whose calls all succeed as R shows: one call,
\* or an ownership patch and one of the two calls its failure leads to
FaultSets(R, k) ==
    {{c} : c \in 1..R.calls}
        \cup {{c, c + h} : c \in R.tp, h \in {h \in 1..2 : k > 1}}

\* machine i belongs to old MachineSet 1, or the machines are dealt out over
\* the old MachineSets in turn
Placement(spread, i) ==
    IF spread THEN ((i - 1) % (NumMachineSets - 1)) + 1 ELSE 1

\* stale: an earlier in-place rollout has gone over these machines; it left
\* candidate-for-update on the machines and candidate-for-update and
\* selected-for-update on the nodes (syncMachineSets removes neither)
DeploymentInit(spread, stale, noNode) ==
    /\ order = [s \in MachineSets |-> s]
    /\ rep = [s \in MachineSets |->
                 Cardinality({i \in Machines : Placement(spread, i) = s
                                               /\ s < NumMachineSets})]
    /\ mach = [i \in Machines |->
                  [ms |-> Placement(spread, i),
                   owners |-> {Placement(spread, i)},
                   hasNode |-> i \notin noNode,
                   cand |-> stale /\ i \notin noNode,
                   sel |-> FALSE, us |-> FALSE]]
    /\ node = [i \in Machines |->
                  [cand |-> stale, sel |-> stale, us |-> FALSE,
                   unsched |-> FALSE]]
    /\ avail = Machines \ noNode
    /\ skip = {}
    /\ faults = 0
    /\ hist = NoRun

Init ==
    /\ \E spread \in BOOLEAN, stale \in BOOLEAN,
          noNode \in {{}, {DeploymentReplicas}} :
          DeploymentInit(spread, stale, noNode)
    /\ maxUnavailable \in {1, 2}
    /\ MachineControllerAtRest

\* the machines the new MachineSet owns with update-successful still on them
\* and an unschedulable node: transferred, the uncordon still to come
PendingUncordon ==
    {j \in Machines : /\ mach[j].owners = {Last(order)}
                      /\ mach[j].us /\ mach[j].hasNode
                      /\ node[j].unsched}

\* the run returns: the API server holds what the run wrote.  hist.pend and
\* hist.had are PendingUncordon and the number of machines of each MachineSet
\* when the run started; sets is what a MachineSet reconciler did meanwhile
ReturnedAmong(R, in, sets) ==
    /\ order' = R.order
    /\ rep' = [s \in MachineSets |-> IF s \in Range(R.order) THEN R.rep[s] ELSE 0]
    /\ skip' = R.skip
    /\ mach' = R.m
    /\ node' = R.n
    /\ faults' = faults + Cardinality({c \in in.failAt : c <= R.calls})
    /\ hist' = [quiet |-> TRUE, runs |-> hist.runs + 1,
                clean |-> IF R.err THEN 0 ELSE hist.clean + 1,
                faulty |-> in.failAt # {}, err |-> R.err,
                log |-> R.log,
                rn |-> R.rn, ro |-> R.ro, pf |-> R.pf, uf |-> R.uf,
                lb |-> R.lb, sy |-> R.sy, sets |-> sets,
                pend |-> PendingUncordon,
                had |-> [s \in MachineSets |->
                            Cardinality({i \in Machines : mach[i].ms = s})]]
    /\ UNCHANGED <<avail, maxUnavailable, mvars>>

Returned(R, in) == ReturnedAmong(R, in, NotCalled)

RolloutWith(in) == hist = NoRun /\ Returned(Run(St, in), in)

\* one reconcile of the MachineDeployment in which every API call succeeds
Rollout == \E in \in BaseInputs(St) : RolloutWith(in)

\* one reconcile in which some API calls return an error
RolloutFault ==
    /\ faults < MaxFaults
    /\ \E b \in BaseInputs(St) :
          \E F \in FaultSets(Run(St, b), MaxFaults - faults) :
              RolloutWith([b EXCEPT !.failAt = F])

\* the MachineDeployment is reconciled again before anything else happens
RolloutAgain ==
    /\ hist.quiet /\ hist.runs < MaxRuns
    /\ \E in \in BaseInputs(St) : Returned(Run(St, in), in)

\* the node agent sees selected-for-update on a node: it cordons and drains the
\* node, updates it and reports update-successful on the node
AgentUpdate(i) ==
    /\ hist = NoRun
    /\ node[i].sel /\ mach[i].sel /\ ~node[i].us
    /\ avail' = avail \ {i}
    /\ node' = [node EXCEPT ![i].unsched = TRUE, ![i].us = TRUE]
    /\ UNCHANGED <<order, rep, skip, mach, maxUnavailable, faults, hist, mvars>>

\* the updated machine's node is ready again
MachineReady(i) ==
    /\ hist = NoRun
    /\ i \notin avail /\ mach[i].hasNode
    /\ avail' = avail \cup {i}
    /\ UNCHANGED <<order, rep, skip, mach, node, maxUnavailable, faults, hist, mvars>>

\* the worker is done with the key: the record of the run is dropped
Forget ==
    /\ hist # NoRun
    /\ hist' = NoRun
    /\ UNCHANGED <<order, rep, skip, mach, node, avail, maxUnavailable, faults,
                   mvars>>

Next ==
    \/ Rollout
    \/ RolloutFault
    \/ Forget
    \/ \E i \in Machines : AgentUpdate(i)
    \/ \E i \in Machines : MachineReady(i)

Spec == Init /\ [][Next]_vars

\* a run in which every API call succeeded has just returned
RanClean == hist.quiet /\ ~hist.faulty

\* the MachineDeployment is reconciled again and again (every change of one of
\* its objects and the periodic resync enqueue it) and API calls do not fail
\* forever; the node agent and the nodes finish what they start (strong
\* fairness: their steps are written to wait until the worker has dropped
\* the record of the last run)
Fairness ==
    /\ []<>RanClean
    /\ WF_vars(Forget)
    /\ \A i \in Machines : SF_vars(AgentUpdate(i)) /\ SF_vars(MachineReady(i))

SpecLive == Spec /\ Fairness

\* the same system with the runs that follow one another directly
NextAgain == Next \/ RolloutAgain

SpecAgain == Init /\ [][NextAgain]_vars


\* ------------------------------- the MachineSet reconciler during a run

MachineOps == {"candidate", "clean", "transfer", "select"}

\* what the last of the first k calls of the log that wrote object x with one
\* of ops has written, was if there is none
WrittenAt(log, k, ops, x, was) ==
    IF \A j \in 1..k : ~(log[j].op \in ops /\ log[j].x = x) THEN was
    ELSE log[CHOOSE j \in 1..k :
                 /\ log[j].op \in ops /\ log[j].x = x
                 /\ \A h \in (j + 1)..k : ~(log[h].op \in ops /\ log[h].x = x)].now

\* the Machines and the MachineSets' replicas on the API server after the
\* first k calls of a run that has started in st and has written R.log
ApiAt(st, R, k) ==
    [m |-> [i \in Machines |-> WrittenAt(R.log, k, MachineOps, i, st.mach[i])],
     rep |-> [s \in MachineSets |->
                 WrittenAt(R.log, k, {"up", "down"}, s, st.rep[s])],
     skip |-> R.skip]

\* the machines the run has transferred by then, the new MachineSet not yet
\* scaled up for them
BeingTransferred(R, k) ==
    IF \E j \in 1..k : R.log[j].op = "up" /\ R.log[j].x = R.new THEN {}
    ELSE {R.log[j].x : j \in {j \in 1..k : R.log[j].op = "transfer"}}

\* the machines that match the selector of s (none is terminating or Failed)
activeMachines(api, s) == {i \in Machines : api.m[i].ms = s}

\* what a reconcile of MachineSet s does on api: with more active machines
\* than replicas it deletes as many victims as are too many (the victims have
\* the same priority; which are the newest is open), with fewer it creates the
\* missing ones unless the MachineSet is labeled skip-update
manageReplicas(api, s, victims) ==
    [deleted |-> IF Cardinality(activeMachines(api, s)) > api.rep[s]
                 THEN victims ELSE {},
     created |-> IF Cardinality(activeMachines(api, s)) < api.rep[s]
                    /\ s \notin api.skip
                 THEN api.rep[s] - Cardinality(activeMachines(api, s)) ELSE 0]

\* the sets of victims the reconcile of s can choose on api
Victims(api, s) ==
    {v \in SUBSET activeMachines(api, s) :
        Cardinality(v) = IF Cardinality(activeMachines(api, s)) > api.rep[s]
                         THEN Cardinality(activeMachines(api, s)) - api.rep[s]
                         ELSE 0}

\* the run R with a reconcile of MachineSet s after one of its calls
AmongSets(R, in, s) ==
    \E k \in 0..Len(R.log) :
        \E v \in Victims(ApiAt(St, R, k), s) :
            ReturnedAmong(R, in,
                [called |-> TRUE, s |-> s,
                 deleted |-> manageReplicas(ApiAt(St, R, k), s, v).deleted,
                 created |-> manageReplicas(ApiAt(St, R, k), s, v).created,
                 moving |-> BeingTransferred(R, k)])

\* one reconcile of the MachineDeployment in which every API call succeeds,
\* and a reconcile of MachineSet s between two of its calls
RolloutAmongSets(s) ==
    /\ hist = NoRun
    /\ s \in Range(order)
    /\ \E in \in BaseInputs(St) : AmongSets(Run(St, in), in, s)

NextSets ==
    \/ \E s \in MachineSets : RolloutAmongSets(s)
    \/ Forget
    \/ \E i \in Machines : AgentUpdate(i)
    \/ \E i \in Machines : MachineReady(i)

SpecSets == Init /\ [][NextSets]_vars

\* ------------------------------------------ a run on a lister that is behind

\* the record a run starts from when the machine lister still returns lm, the
\* Machines as they were when the last run started, and the node lister ln;
\* the MachineSet objects are those of the API server.  An Update of a Node
\* object that is behind the API server's is refused
StartBehind(st, in, lm, ln) ==
    [Start(st, in) EXCEPT !.cm = lm, !.cn = ln,
                          !.ndirty = {i \in Machines : ln[i] # st.node[i]}]

\* the MachineDeployment is reconciled again (the last run's update of a
\* MachineSet enqueues it) before the machine informer has delivered what the
\* last run wrote; the node informer is behind as well, or up to date
RolloutBehind ==
    /\ hist.quiet /\ hist.lb.called /\ hist.runs < MaxRuns
    /\ \E in \in BaseInputs(St), ln \in {hist.lb.pre.ln, node} :
          Returned(rolloutAutoInPlace(
                       StartBehind(St, in, hist.lb.pre.lm, ln), in.oldISs),
                   in)

NextBehind ==
    \/ Rollout
    \/ RolloutBehind
    \/ Forget
    \/ \E i \in Machines : AgentUpdate(i)
    \/ \E i \in Machines : MachineReady(i)

SpecBehind == Init /\ [][NextBehind]_vars

\* ------------------------------------- a Machine of the new MachineSet anew

\* a Machine of the new MachineSet is gone and the MachineSet has created
\* another in its place: it has no node label yet, the Node of its VM is to
\* come without the labels of the rollout
MachineReplaced(i) ==
    /\ hist = NoRun
    /\ mach[i].ms = Last(order) /\ mach[i].hasNode
    /\ mach' = [mach EXCEPT ![i] = [ms |-> Last(order), owners |-> {Last(order)},
                                    hasNode |-> FALSE, cand |-> FALSE,
                                    sel |-> FALSE, us |-> FALSE]]
    /\ node' = [node EXCEPT ![i] = [cand |-> FALSE, sel |-> FALSE, us |-> FALSE,
                                    unsched |-> FALSE]]
    /\ avail' = avail \ {i}
    /\ UNCHANGED <<order, rep, skip, maxUnavailable, faults, hist, mvars>>

\* the machine controller has created the VM and written the node label
NodeLabeled(i) ==
    /\ hist = NoRun
    /\ ~mach[i].hasNode
    /\ mach' = [mach EXCEPT ![i].hasNode = TRUE]
    /\ UNCHANGED <<order, rep, skip, node, avail, maxUnavailable, faults, hist,
                   mvars>>

\* API calls fail in one run of a behaviour
RolloutFaultFirst == faults = 0 /\ RolloutFault

NextReplaced ==
    \/ Rollout
    \/ RolloutFaultFirst
    \/ Forget
    \/ \E i \in Machines : AgentUpdate(i)
    \/ \E i \in Machines : MachineReady(i)
    \/ \E i \in Machines : MachineReplaced(i)
    \/ \E i \in Machines : NodeLabeled(i)

SpecReplaced == Init /\ [][NextReplaced]_vars

\* ------------------------------------------- a Node cordoned by someone else

\* a user cordons the Node of a Machine of the new MachineSet
NodeCordoned(i) ==
    /\ hist = NoRun
    /\ mach[i].ms = Last(order) /\ mach[i].hasNode /\ ~mach[i].us
    /\ ~node[i].unsched
    /\ node' = [node EXCEPT ![i].unsched = TRUE]
    /\ UNCHANGED <<order, rep, skip, mach, avail, maxUnavailable, faults, hist,
                   mvars>>

NextCordoned ==
    \/ Rollout
    \/ Forget
    \/ \E i \in Machines : AgentUpdate(i)
    \/ \E i \in Machines : MachineReady(i)
    \/ \E i \in Machines : NodeCordoned(i)

SpecCordoned == Init /\ [][NextCordoned]_vars

\* ------------------------------------------------ machine controller: calls

\* a call of the controller works on X: the Machine, the driver and the Node
\* as the call leaves them, what it returns, the driver and client calls it
\* made and the step of the flow it executed
Call == [m |-> machine, d |-> fakeDriver, n |-> targetNode, retry |-> "",
         err |-> "", calls |-> {}, step |-> ""]

Called(X, c) == [X EXCEPT !.calls = @ \cup {c}]

Return(X, retry, err) == [X EXCEPT !.retry = retry, !.err = err]

\* the status of the Machine is written: phase, lastOperation, LastUpdateTime
machineStatusUpdate(X, phase, lastOp) ==
    [X EXCEPT !.m.phase = phase, !.m.lastOperation = lastOp,
              !.m.lastUpdateAge = 0]

\* FakeDriver.GetMachineStatus
GetMachineStatus(d) ==
    IF ~d.VMExists THEN "NotFound"
    ELSE IF d.Err = "Uninitialized" THEN "Uninitialized"
    ELSE ""

HasTimeOutOccurred(age, timeout) == age > timeout

\* the step a description names: the one it ends with
Position(step) ==
    CHOOSE i \in 1..Len(DeletionSteps) : DeletionSteps[i] = step

Executed(X, step) == [X EXCEPT !.step = step]

\* the deletion flow goes on: the description names the step that comes next
Proceed(X, msg, next, retry, err) ==
    Return(machineStatusUpdate(X, "Terminating",
               LastOperation(msg, next, "Processing", "Delete", "")),
           retry, err)

\* the step failed: the description keeps naming it
Retry(X, msg, retry, err) ==
    Return(machineStatusUpdate(X, "Terminating",
               LastOperation(msg, X.step, "Failed", "Delete", "")),
           retry, err)

\* setMachineTerminationStatus, had it written the Machine without its
\* providerID
setMachineTerminationStatusOnly(X) ==
    Proceed(Executed([X EXCEPT !.m.providerID = ""], "SetTerminating"), "",
            "GetVMStatus", "ShortRetry",
            "Machine deletion in process. Phase set to termination")

setMachineTerminationStatus(X) ==
    Proceed(Executed(X, "SetTerminating"), "", "GetVMStatus", "ShortRetry",
            "Machine deletion in process. Phase set to termination")

getVMStatus(X) ==
    IF GetMachineStatus(X.d) = "NotFound"
    THEN Proceed(Called(X, "GetMachineStatus"), "VM not found",
                 "InitiateVMDeletion", "ShortRetry", "VM not found")
    ELSE Proceed(Called(X, "GetMachineStatus"), "", "InitiateDrain",
                 "ShortRetry",
                 "machine deletion in process. VM with matching ID found")

\* the machine has not been ready, or its filesystem has been read-only, for
\* longer than nodeNotReadyDuration
nodeUnhealthyForLong(m) ==
    \/ /\ m.conditions["Ready"] \in {"False", "Unknown"}
       /\ m.readyAge > nodeNotReadyDuration
    \/ /\ m.conditions["ReadonlyFilesystem"] = "True"
       /\ m.rofsAge > nodeNotReadyDuration

\* the force-deletion label, or the drain timeout has passed since the
\* deletion timestamp
forceDeleteLabelOrTimeout(m) ==
    m.force \/ HasTimeOutOccurred(m.deletionAge, MachineDrainTimeout)

\* forceDeletePods, with the label and the timeout left out
forceDeletePodsByCondition(m) == nodeUnhealthyForLong(m)

\* the pods are deleted rather than evicted
forceDeletePods(m) == nodeUnhealthyForLong(m) \/ forceDeleteLabelOrTimeout(m)

\* drainFailed, had it never given the drain up
drainFailedRetrying(X) ==
    Retry(X, "Drain failed, will retry", "ShortRetry",
          "failed to create update conditions for node")

\* the update of the Node failed: under force the deletion goes on, else the
\* drain is tried again in the next sync
drainFailed(X) ==
    IF forceDeleteLabelOrTimeout(X.m)
    THEN Proceed(X, "Drain failed, force deletion", "DelVolumesAttachments",
                 "ShortRetry", "Failed to update node")
    ELSE Retry(X, "Drain failed, will retry", "ShortRetry",
               "failed to create update conditions for node")

\* the drain went through; a drain that honours the disruption budgets
\* leaves the termination condition on the Node
drained(X) ==
    IF forceDeletePods(X.m)
    THEN Proceed(X, "Force Drain successful", "DelVolumesAttachments",
                 "ShortRetry", "Force Drain successful")
    ELSE Proceed([X EXCEPT !.n.terminationCondition = X.n.exists],
                 "Drain successful", "InitiateVMDeletion", "ShortRetry",
                 "Drain successful")

\* drainNode, had it skipped the drain only where no force drain is due
drainNodeForceFirst(X) ==
    IF X.m.nodeLabel = "" /\ ~forceDeletePods(X.m)
    THEN Proceed(X, "Skipping drain", "InitiateVMDeletion", "ShortRetry",
                 "Skipping drain as nodeName is not a valid one for machine")
    ELSE IF ~X.n.exists THEN drained(X)
    ELSE IF clientFails THEN drainFailed(Called(X, "NodeUpdate"))
    ELSE drained(Called(X, "NodeUpdate"))

\* InitiateDrain: no drain without a node name; else the Node is cordoned and
\* its pods are evicted or, under force, deleted
drainNode(X) ==
    IF X.m.nodeLabel = ""
    THEN Proceed(X, "Skipping drain", "InitiateVMDeletion", "ShortRetry",
                 "Skipping drain as nodeName is not a valid one for machine")
    ELSE IF ~X.n.exists THEN drained(X)
    ELSE IF clientFails THEN drainFailed(Called(X, "NodeUpdate"))
    ELSE drained(Called(X, "NodeUpdate"))

deleteNodeVolAttachments(X) ==
    Proceed(X, "Volume attachments deleted", "InitiateVMDeletion",
            "ShortRetry", "Volume attachments deleted")

\* deleteVM, had it handed over to the removal of the finalizer
deleteVMThenFinalizer(X) ==
    IF X.d.Err # ""
    THEN Retry(Called(X, "DeleteMachine"), "VM deletion failed",
               "ShortRetry", X.d.Err)
    ELSE Proceed([Called(X, "DeleteMachine") EXCEPT !.d.VMExists = FALSE],
                 "VM deletion was successful", "InitiateFinalizerRemoval",
                 "ShortRetry",
                 "Machine deletion in process. VM deletion was successful")

deleteVM(X) ==
    IF X.d.Err # ""
    THEN Retry(Called(X, "DeleteMachine"), "VM deletion failed",
               "ShortRetry", X.d.Err)
    ELSE Proceed([Called(X, "DeleteMachine") EXCEPT !.d.VMExists = FALSE],
                 "VM deletion was successful", "InitiateNodeDeletion",
                 "ShortRetry",
                 "Machine deletion in process. VM deletion was successful")

\* deleteNodeObject, had it kept the description at its own step
deleteNodeObjectAgain(X) ==
    IF X.m.nodeLabel # "" /\ X.n.exists
    THEN Proceed([Called(X, "NodeDelete") EXCEPT !.n.exists = FALSE],
                 "Deletion of Node Object is successful",
                 "InitiateNodeDeletion", "ShortRetry",
                 "Machine deletion in process. Deletion of node object was successful")
    ELSE Proceed(X, "no associated node object found",
                 "InitiateNodeDeletion", "ShortRetry",
                 "Machine deletion in process. No node object found")

deleteNodeObject(X) ==
    IF X.m.nodeLabel # "" /\ X.n.exists
    THEN Proceed([Called(X, "NodeDelete") EXCEPT !.n.exists = FALSE],
                 "Deletion of Node Object is successful",
                 "InitiateFinalizerRemoval", "ShortRetry",
                 "Machine deletion in process. Deletion of node object was successful")
    ELSE Proceed(X, "no associated node object found",
                 "InitiateFinalizerRemoval", "ShortRetry",
                 "Machine deletion in process. No node object found")

\* the finalizer goes; the API server then removes the object
deleteMachineFinalizers(X) ==
    Return([X EXCEPT !.m.finalizers = FALSE, !.m.exists = FALSE],
           "LongRetry", "")

\* triggerDeletionFlow, had it not looked at the finalizers
triggerDeletionFlowUnchecked(X) ==
    IF X.m.phase # "Terminating" THEN setMachineTerminationStatus(X)
    ELSE CASE X.m.lastOperation.next = "GetVMStatus" ->
                  getVMStatus(Executed(X, "GetVMStatus"))
           [] X.m.lastOperation.next = "InitiateDrain" ->
                  drainNode(Executed(X, "InitiateDrain"))
           [] X.m.lastOperation.next = "DelVolumesAttachments" ->
                  deleteNodeVolAttachments(Executed(X, "DelVolumesAttachments"))
           [] X.m.lastOperation.next = "InitiateVMDeletion" ->
                  deleteVM(Executed(X, "InitiateVMDeletion"))
           [] X.m.lastOperation.next = "InitiateNodeDeletion" ->
                  deleteNodeObject(Executed(X, "InitiateNodeDeletion"))
           [] X.m.lastOperation.next = "InitiateFinalizerRemoval" ->
                  deleteMachineFinalizers(Executed(X, "InitiateFinalizerRemoval"))
           [] OTHER -> setMachineTerminationStatus(X)

\* triggerDeletionFlow, had it taken a description it cannot decode for the
\* last step it knows of that is still to come, the deletion of the VM
triggerDeletionFlowGuessing(X) ==
    IF ~X.m.finalizers
    THEN Return(X, "LongRetry", "Machine is missing finalizers")
    ELSE IF /\ X.m.phase = "Terminating"
            /\ X.m.lastOperation.next \notin Range(DeletionSteps)
    THEN deleteVM(Executed(X, "InitiateVMDeletion"))
    ELSE triggerDeletionFlowUnchecked(X)

\* triggerDeletionFlow: one step of the deletion, chosen by the finalizers,
\* the phase and the description of the Machine
triggerDeletionFlow(X) ==
    IF ~X.m.finalizers
    THEN Return(X, "LongRetry", "Machine is missing finalizers")
    ELSE IF X.m.phase # "Terminating" THEN setMachineTerminationStatus(X)
    ELSE CASE X.m.lastOperation.next = "GetVMStatus" ->
                  getVMStatus(Executed(X, "GetVMStatus"))
           [] X.m.lastOperation.next = "InitiateDrain" ->
                  drainNode(Executed(X, "InitiateDrain"))
           [] X.m.lastOperation.next = "DelVolumesAttachments" ->
                  deleteNodeVolAttachments(Executed(X, "DelVolumesAttachments"))
           [] X.m.lastOperation.next = "InitiateVMDeletion" ->
                  deleteVM(Executed(X, "InitiateVMDeletion"))
           [] X.m.lastOperation.next = "InitiateNodeDeletion" ->
                  deleteNodeObject(Executed(X, "InitiateNodeDeletion"))
           [] X.m.lastOperation.next = "InitiateFinalizerRemoval" ->
                  deleteMachineFinalizers(Executed(X, "InitiateFinalizerRemoval"))
           [] OTHER -> setMachineTerminationStatus(X)

\* retryPeriod, had it not looked at the code
retryPeriodMedium(code) == "MediumRetry"

\* the retry period after a driver error, by its code
retryPeriod(code) ==
    CASE code = "ResourceExhausted" -> "LongRetry"
      [] code = "Uninitialized" -> "ShortRetry"
      [] OTHER -> "MediumRetry"

\* machineCreateErrorHandler, had it not looked at the creation timeout
machineCreateErrorHandlerNoTimeout(X, code) ==
    Return(machineStatusUpdate(X, "CrashLoopBackOff",
               LastOperation("Provider error", "", "Failed", "Create", code)),
           retryPeriod(code), code)

\* the driver returned an error while the VM was created or initialized:
\* CrashLoopBackOff, or Failed once the creation timeout has passed; the
\* error of the driver is returned as it is
machineCreateErrorHandler(X, code) ==
    Return(machineStatusUpdate(X,
               IF HasTimeOutOccurred(X.m.creationAge, MachineCreationTimeout)
               THEN "Failed" ELSE "CrashLoopBackOff",
               LastOperation("Provider error", "", "Failed", "Create", code)),
           retryPeriod(code), code)

\* providerID and node label are written where the Machine has none
machineObjectUpdate(X) ==
    [X EXCEPT !.m.providerID = IF @ = "" THEN "fakeID" ELSE @,
              !.m.nodeLabel = IF @ = "" THEN "fakeNode-0" ELSE @]

\* machineUpdate, had it written the status whatever the phase
machineUpdateStatusAgain(X) ==
    IF X.m.providerID = "" \/ X.m.nodeLabel = ""
    THEN Return(machineObjectUpdate(X), "ShortRetry",
                "machine creation in process. Machine initialization (if required) is successful")
    ELSE Return(machineStatusUpdate(X, "Pending",
                    LastOperation("Creating machine on cloud provider", "",
                                  "Processing", "Create", "")),
                "ShortRetry",
                "machine creation in process. Machine/Status UPDATE successful")

\* the VM exists and is initialized: the Machine object first, its status in
\* the next call, and nothing once it is Pending
machineUpdate(X) ==
    IF X.m.providerID = "" \/ X.m.nodeLabel = ""
    THEN Return(machineObjectUpdate(X), "ShortRetry",
                "machine creation in process. Machine initialization (if required) is successful")
    ELSE IF X.m.phase \in {"", "CrashLoopBackOff"}
    THEN Return(machineStatusUpdate(X, "Pending",
                    LastOperation("Creating machine on cloud provider", "",
                                  "Processing", "Create", "")),
                "ShortRetry",
                "machine creation in process. Machine/Status UPDATE successful")
    ELSE Return(X, "LongRetry", "")

\* a Node of the name the driver returns is there before the VM: the VM
\* would use a stale node object
staleNode(X) ==
    Return(machineStatusUpdate([Called(X, "DeleteMachine") EXCEPT
                                    !.d.VMExists = FALSE],
               "Failed",
               LastOperation("VM using old node obj", "", "Failed", "Create", "")),
           "ShortRetry", "")

createMachine(X) ==
    IF X.d.Err # ""
    THEN machineCreateErrorHandler(Called(X, "CreateMachine"), X.d.Err)
    ELSE IF X.n.exists
    THEN staleNode([Called(X, "CreateMachine") EXCEPT !.d.VMExists = TRUE])
    ELSE machineUpdate([Called(X, "CreateMachine") EXCEPT !.d.VMExists = TRUE])

initializeMachine(X) ==
    machineCreateErrorHandler(
        machineObjectUpdate(Called(X, "InitializeMachine")), X.d.Err)

triggerCreationFlow(X) ==
    CASE GetMachineStatus(X.d) = "NotFound" ->
             createMachine(Called(X, "GetMachineStatus"))
      [] GetMachineStatus(X.d) = "Uninitialized" ->
             initializeMachine(Called(X, "GetMachineStatus"))
      [] OTHER -> machineUpdate(Called(X, "GetMachineStatus"))

\* the conditions of the Node are copied to the Machine; a condition whose
\* status changes has its transition time set
withConditions(m, c) ==
    [m EXCEPT !.conditions = c,
              !.readyAge = IF c["Ready"] = m.conditions["Ready"] THEN @ ELSE 0,
              !.rofsAge = IF c["ReadonlyFilesystem"] =
                              m.conditions["ReadonlyFilesystem"]
                          THEN @ ELSE 0]

\* reconcileMachineHealth, had it set every healthy Machine Running
reconcileMachineHealthAnyPhase(X) ==
    IF ~isHealthy(X.m) /\ X.m.phase = "Running"
    THEN machineStatusUpdate(X, "Unknown",
             LastOperation("Machine is unhealthy", "", "Processing",
                           "HealthCheck", ""))
    ELSE IF isHealthy(X.m) /\ X.m.phase # "Running"
    THEN machineStatusUpdate(X, "Running",
             LastOperation("Machine successfully joined the cluster", "",
                           "Successful", "Create", ""))
    ELSE X

reconcileMachineHealth(X) ==
    IF ~isHealthy(X.m) /\ X.m.phase = "Running"
    THEN machineStatusUpdate(X, "Unknown",
             LastOperation("Machine is unhealthy", "", "Processing",
                           "HealthCheck", ""))
    ELSE IF isHealthy(X.m) /\ X.m.phase = "Pending"
    THEN machineStatusUpdate(X, "Running",
             LastOperation("Machine successfully joined the cluster", "",
                           "Successful", "Create", ""))
    ELSE IF isHealthy(X.m) /\ X.m.phase \in {"Available", "Unknown"}
    THEN machineStatusUpdate(X, "Running",
             LastOperation("Machine successfully re-joined the cluster", "",
                           "Successful", "HealthCheck", ""))
    ELSE X

\* updateMachineState: c are the conditions the Node reports
updateMachineState(X, c) ==
    IF X.m.nodeLabel = "" THEN X
    ELSE IF ~X.n.exists
    THEN IF X.m.conditions # NoConditions /\ X.m.phase = "Running"
         THEN machineStatusUpdate(X, "Unknown",
                  LastOperation("Node object went missing", "", "Processing",
                                "HealthCheck", ""))
         ELSE X
    ELSE reconcileMachineHealth([X EXCEPT !.m = withConditions(@, c)])

checkMachineTimeout(X) ==
    IF \/ /\ X.m.phase = "Pending"
          /\ HasTimeOutOccurred(X.m.lastUpdateAge, MachineCreationTimeout)
       \/ /\ X.m.phase = "Unknown"
          /\ HasTimeOutOccurred(X.m.lastUpdateAge, MachineHealthTimeout)
    THEN machineStatusUpdate(X, "Failed",
             LastOperation("Machine failed: timeout", "", "Failed",
                           X.m.lastOperation.type, ""))
    ELSE X

\* --------------------------------------- machine controller: Init and steps

DriverErrors == {"Internal", "ResourceExhausted", "Uninitialized"}

Deleting == machine.exists /\ machine.deletionAge >= 0

\* the deletion step X executed went through
Succeeded(X) ==
    /\ X.step # ""
    /\ \/ ~X.m.exists
       \/ X.m.lastOperation.state = "Processing"

\* the call returns: the API server, the driver and the target cluster hold
\* what the call left; ret.done are the steps of the deletion flow that went
\* through so far and ret.reconciles the calls of the deletion flow that did
ReturnedCall(op, X) ==
    /\ machine' = X.m
    /\ fakeDriver' = X.d
    /\ targetNode' = X.n
    /\ ret' = [op |-> op, retry |-> X.retry, err |-> X.err, healthy |-> FALSE,
               step |-> X.step, calls |-> X.calls,
               done |-> IF Succeeded(X) THEN ret.done \cup {X.step}
                        ELSE ret.done,
               reconciles |-> IF Succeeded(X) THEN ret.reconciles + 1
                              ELSE ret.reconciles]
    /\ UNCHANGED <<clientFails, dvars>>

\* a Machine has been created; another controller's finalizer may hold it, a
\* Node of the name the driver will return may be left from an earlier VM
InitMachine ==
    /\ DeploymentInit(FALSE, FALSE, {})
    /\ maxUnavailable = 1
    /\ machine \in {newMachine(FALSE, force) : force \in BOOLEAN}
    /\ fakeDriver \in {[VMExists |-> FALSE, Err |-> e] :
                          e \in {""} \cup DriverErrors}
    /\ targetNode \in {[exists |-> e, terminationCondition |-> FALSE] :
                          e \in BOOLEAN}
    /\ clientFails = FALSE
    /\ ret = NoReturn

\* reconcileClusterMachine on a Machine that is not being deleted: the
\* finalizer first
AddFinalizers ==
    /\ machine.exists /\ machine.deletionAge = -1 /\ ~machine.finalizers
    /\ machine' = [machine EXCEPT !.finalizers = TRUE]
    /\ UNCHANGED <<fakeDriver, targetNode, clientFails, ret, dvars>>

\* ... then the creation flow, while the Machine has no providerID or is yet
\* to become Pending; a Failed Machine is left alone
CreationFlow ==
    /\ machine.exists /\ machine.deletionAge = -1 /\ machine.finalizers
    /\ machine.phase # "Failed"
    /\ machine.providerID = "" \/ machine.phase \in {"", "CrashLoopBackOff"}
    /\ ReturnedCall("triggerCreationFlow", triggerCreationFlow(Call))

\* reconcileClusterMachine on a Machine with a deletion timestamp
DeletionFlow ==
    /\ Deleting
    /\ ReturnedCall("triggerDeletionFlow", triggerDeletionFlow(Call))

\* the conditions a Node reports: of those that vary, Ready and
\* ReadonlyFilesystem; the others are False
NodeConditions ==
    {[c \in ConditionTypes |->
         CASE c = "Ready" -> r
           [] c = "ReadonlyFilesystem" -> f
           [] OTHER -> "False"] :
       r \in {"True", "False", "Unknown"}, f \in {"", "True", "False"}}

\* a Node event: the state of the Machine follows its Node
UpdateMachineState ==
    /\ machine.exists /\ machine.deletionAge = -1
    /\ \E c \in NodeConditions :
          ReturnedCall("updateMachineState", updateMachineState(Call, c))

\* the safety loop looks for Machines that took too long
CheckMachineTimeout ==
    /\ machine.exists /\ machine.deletionAge = -1
    /\ ReturnedCall("checkMachineTimeout", checkMachineTimeout(Call))

\* the Machine is deleted: it gets its deletion timestamp
DeleteMachine ==
    /\ machine.exists /\ machine.deletionAge = -1
    /\ machine' = [machine EXCEPT !.deletionAge = 0]
    /\ UNCHANGED <<fakeDriver, targetNode, clientFails, ret, dvars>>

\* the kubelet of the VM registers its Node
NodeJoins ==
    /\ fakeDriver.VMExists /\ ~targetNode.exists /\ machine.nodeLabel # ""
    /\ targetNode' = [exists |-> TRUE, terminationCondition |-> FALSE]
    /\ UNCHANGED <<machine, fakeDriver, clientFails, ret, dvars>>

\* the Node object of a running Machine is deleted behind the controller
NodeLost ==
    /\ targetNode.exists /\ machine.exists /\ machine.phase = "Running"
    /\ machine.deletionAge = -1
    /\ targetNode' = [targetNode EXCEPT !.exists = FALSE]
    /\ UNCHANGED <<machine, fakeDriver, clientFails, ret, dvars>>

\* the provider starts or stops failing
DriverChange ==
    /\ machine.exists
    /\ \E e \in {""} \cup DriverErrors :
          /\ e # fakeDriver.Err
          /\ e = "Uninitialized" => ~fakeDriver.VMExists
          /\ fakeDriver' = [fakeDriver EXCEPT !.Err = e]
    /\ UNCHANGED <<machine, targetNode, clientFails, ret, dvars>>

\* the API server of the target cluster starts or stops failing
ClientChange ==
    /\ machine.exists
    /\ clientFails' = ~clientFails
    /\ UNCHANGED <<machine, fakeDriver, targetNode, ret, dvars>>

\* an age goes on until it is past the timeout it is compared with
Aged(age, timeout) == IF age > timeout THEN age ELSE age + TickMinutes

Older(m) ==
    [m EXCEPT !.creationAge = Aged(@, MachineCreationTimeout),
              !.lastUpdateAge = Aged(@, MachineCreationTimeout),
              !.deletionAge = IF @ = -1 THEN -1
                              ELSE Aged(@, MachineDrainTimeout),
              !.readyAge = Aged(@, nodeNotReadyDuration),
              !.rofsAge = Aged(@, nodeNotReadyDuration)]

Tick ==
    /\ machine.exists
    /\ machine' = Older(machine)
    /\ UNCHANGED <<fakeDriver, targetNode, clientFails, ret, dvars>>

NextMachine ==
    \/ AddFinalizers
    \/ CreationFlow
    \/ DeletionFlow
    \/ UpdateMachineState
    \/ CheckMachineTimeout
    \/ DeleteMachine
    \/ NodeJoins
    \/ NodeLost
    \/ DriverChange
    \/ ClientChange
    \/ Tick

SpecMachine == InitMachine /\ [][NextMachine]_vars

\* the controller reconciles the Machine again and again (every call returns
\* a retry period) and time goes on
FairnessMachine ==
    /\ WF_vars(AddFinalizers)
    /\ WF_vars(CreationFlow)
    /\ WF_vars(DeletionFlow)
    /\ WF_vars(Tick)

SpecMachineLive == SpecMachine /\ FairnessMachine

\* ---------------------------------------------------- isHealthy on its own

\* the Machine of the isHealthy table, with any conditions
InitHealth ==
    /\ DeploymentInit(FALSE, FALSE, {})
    /\ maxUnavailable = 1
    /\ \E c \in [ConditionTypes -> ConditionStatus] :
          machine = [newMachine(TRUE, FALSE) EXCEPT !.conditions = c]
    /\ fakeDriver = [VMExists |-> TRUE, Err |-> ""]
    /\ targetNode = [exists |-> TRUE, terminationCondition |-> FALSE]
    /\ clientFails = FALSE
    /\ ret = NoReturn

CheckHealth ==
    /\ ret' = [NoReturn EXCEPT !.op = "isHealthy",
                               !.healthy = isHealthy(machine)]
    /\ UNCHANGED <<machine, fakeDriver, targetNode, clientFails, dvars>>

\* a condition of the Machine is set to another status
SetCondition ==
    /\ \E c \in ConditionTypes, s \in ConditionStatus :
          machine' = [machine EXCEPT !.conditions[c] = s]
    /\ ret' = NoReturn
    /\ UNCHANGED <<fakeDriver, targetNode, clientFails, dvars>>

NextHealth == CheckHealth \/ SetCondition

SpecHealth == InitHealth /\ [][NextHealth]_vars
\* ------------------------------------------------------------ properties

MinAvailable == DeploymentReplicas - maxUnavailable

newIS == Last(order)

\* C1: the availability budget holds in every state and right after every
\* mutation a run issued: available(new MS) + available(old-MS machines not
\* selected for update) >= deployment replicas - maxUnavailable
AvailabilityBudget ==
    /\ Budget(mach, avail, newIS) >= MinAvailable
    /\ \A k \in 1..Len(hist.log) : hist.log[k].bud >= MinAvailable

\* C2: in no run is a scale-up of the new MachineSet issued before a
\* scale-down of an old MachineSet
ScaleDownBeforeScaleUp ==
    \A a, b \in 1..Len(hist.log) :
        ~(/\ a < b
          /\ hist.log[a].op = "up" /\ hist.log[a].x = newIS
          /\ hist.log[b].op = "down" /\ hist.log[b].x # newIS)

\* C3: every Machine has exactly one controller ownerReference, in every state
\* and after every patch of a run; the ownership patch replaces the reference
\* to the old MachineSet by the reference to the new one
SingleOwner ==
    /\ \A i \in Machines : Cardinality(mach[i].owners) = 1
    /\ \A k \in 1..Len(hist.log) :
          hist.log[k].op \in MachineOps =>
              /\ Cardinality(hist.log[k].now.owners) = 1
              /\ hist.log[k].op = "transfer" =>
                     /\ hist.log[k].now.owners = {newIS}
                     /\ hist.log[k].was.owners = {hist.log[k].was.ms}
                     /\ hist.log[k].was.ms # newIS

\* a run has transferred a machine to the new MachineSet
SingleOwnerWitness ==
    \E k \in 1..Len(hist.log) :
        /\ hist.log[k].op = "transfer"
        /\ mach[hist.log[k].x].owners = {newIS}

AllOnNodes == \A i \in Machines : mach[i].hasNode

RolloutDone ==
    /\ rep[newIS] = DeploymentReplicas
    /\ \A s \in MachineSets \ {newIS} : rep[s] = 0

\* C4: when every machine has a node, the rollout completes: eventually the new
\* MachineSet has all the replicas and every old MachineSet has none
RolloutCompletes == AllOnNodes ~> RolloutDone

\* the machines of old MachineSet s, as the listers show them when
\* reconcileNewMachineSetInPlace is called, whose node is update-successful
Harvestable(s) ==
    {i \in Machines : /\ hist.rn.pre.lm[i].ms = s
                      /\ hist.rn.pre.lm[i].hasNode
                      /\ hist.rn.pre.ln[i].us}

oldISs == MachineSets \ {newIS}

\* reconcileNewMachineSetInPlace was called with the new MachineSet below the
\* deployment's replicas and has returned without error
Harvested ==
    /\ hist.rn.called
    /\ hist.rn.pre.lrep[newIS] < DeploymentReplicas
    /\ ~hist.rn.post.err

\* C5: a harvest that returns no error has moved every old-MachineSet machine
\* with an update-successful node to the new MachineSet (owner, labels), has
\* made its node schedulable, has taken from each old MachineSet's replicas the
\* number of its machines moved and added their total to the new MachineSet's,
\* and returns true iff some replica count changed
HarvestMovesUpdated ==
    Harvested =>
        /\ \A s \in oldISs : \A i \in Harvestable(s) :
              /\ hist.rn.post.m[i].owners = {newIS}
              /\ hist.rn.post.m[i].ms = newIS
              /\ ~hist.rn.post.n[i].unsched
        /\ \A s \in oldISs :
              hist.rn.post.rep[s] = hist.rn.pre.rep[s] - Cardinality(Harvestable(s))
        /\ hist.rn.post.rep[newIS] = hist.rn.pre.rep[newIS]
              + Cardinality(UNION {Harvestable(s) : s \in oldISs})
        /\ hist.rn.post.scaled <=> hist.rn.post.rep # hist.rn.pre.rep

\* a harvest has moved a machine
HarvestWitness ==
    Harvested /\ \E s \in oldISs : Harvestable(s) # {}

\* the machines reconcileNewMachineSetInPlace has moved to another MachineSet
Moved == {i \in Machines : hist.rn.post.m[i].ms # hist.rn.pre.m[i].ms}

\* C6 as stated: when the ownership patch fails after k machines were
\* transferred (j of them from the current old MachineSet), the call returns the
\* error, the new MachineSet has its previous replicas + k, the current old
\* MachineSet its previous replicas - j, and no further machine is transferred
PatchFailureRescales ==
    hist.pf.called =>
        /\ hist.rn.post.err
        /\ hist.rn.post.rep[newIS] = hist.rn.pre.rep[newIS] + hist.pf.k
        /\ hist.rn.post.rep[hist.pf.s] = hist.rn.pre.rep[hist.pf.s] - hist.pf.j
        /\ Cardinality(Moved) = hist.pf.k

\* C6 amended: the call returns an error and transfers no further machine; the
\* replicas are as stated when the API server accepts the two updates of the
\* branch; when it refuses the first, neither count changes; when it refuses
\* the second, only the new MachineSet's count has changed
PatchFailureRescalesIfAccepted ==
    hist.pf.called =>
        /\ hist.rn.post.err
        /\ Cardinality(Moved) = hist.pf.k
        /\ hist.pf.accepted =>
              /\ hist.rn.post.rep[newIS] = hist.rn.pre.rep[newIS] + hist.pf.k
              /\ hist.rn.post.rep[hist.pf.s]
                     = hist.rn.pre.rep[hist.pf.s] - hist.pf.j
        /\ ~hist.pf.accepted =>
              /\ hist.rn.post.rep[hist.pf.s] = hist.rn.pre.rep[hist.pf.s]
              /\ hist.rn.post.rep[newIS] \in
                     {hist.rn.pre.rep[newIS], hist.rn.pre.rep[newIS] + hist.pf.k}

\* an ownership patch has failed after a machine of the same old MachineSet
\* was transferred, and the branch's updates were accepted
PatchFailureWitness ==
    hist.pf.called /\ hist.pf.accepted /\ hist.pf.j > 0

\* maxUpdatePossible as C7 gives it, from what reconcileOldMachineSetsInPlace
\* is handed and what the listers show it
MaxUpdatePossible ==
    SumOver(hist.ro.pre.lrep, [s \in MachineSets |-> s])
        - MinAvailable
        - (hist.ro.pre.lrep[newIS] - hist.ro.pre.lavail[newIS])
        - Cardinality({i \in Machines : /\ hist.ro.pre.lm[i].ms # newIS
                                        /\ hist.ro.pre.lm[i].sel})

\* the machines labeled selected-for-update by reconcileOldMachineSetsInPlace
LabeledSelected ==
    {hist.log[k].x : k \in {k \in (hist.ro.pre.log + 1)..hist.ro.post.log :
                                 hist.log[k].op = "select"}}

\* C7: reconcileOldMachineSetsInPlace labels no machine when maxUpdatePossible
\* <= 0, and at most maxUpdatePossible machines otherwise
SelectionBound ==
    hist.ro.called =>
        /\ MaxUpdatePossible <= 0 => LabeledSelected = {}
        /\ MaxUpdatePossible > 0 =>
              Cardinality(LabeledSelected) <= MaxUpdatePossible

\* the machines of old MachineSet s that are candidates and not yet selected
Eligible(s) ==
    {i \in Machines : mach[i].ms = s /\ mach[i].cand /\ ~mach[i].sel}

\* C8: a machine is labeled selected-for-update only while it matches an old
\* MachineSet's selector, is a candidate-for-update and is not selected yet;
\* getMachinesForDrain(ms, n) returns at most n machines, each of them such
SelectionEligibility ==
    /\ \A k \in 1..Len(hist.log) :
          hist.log[k].op = "select" =>
              /\ hist.log[k].was.ms # newIS
              /\ hist.log[k].was.cand
              /\ ~hist.log[k].was.sel
    /\ \A in \in BaseInputs(St), s \in oldISs, n \in 0..DeploymentReplicas :
          /\ Len(getMachinesForDrain(Start(St, in), s, n)) <= n
          /\ Range(getMachinesForDrain(Start(St, in), s, n)) \subseteq Eligible(s)

\* a run has selected a machine and left an eligible one unselected
SelectionWitness ==
    /\ \E k \in 1..Len(hist.log) : hist.log[k].op = "select"
    /\ \E s \in oldISs : Eligible(s) # {}

\* C9: when the uncordon that follows a successful ownership patch fails,
\* reconcileNewMachineSetInPlace returns an error and the machine stays with
\* the new MachineSet; a following run whose API calls succeed leaves the node
\* schedulable, the new MachineSet with at least the machines it had, and each
\* old MachineSet with at most the machines it had
UncordonFailureHeals ==
    /\ hist.uf.called =>
          /\ hist.err /\ hist.rn.post.err
          /\ mach[hist.uf.j].owners = {newIS}
          /\ mach[hist.uf.j].ms = newIS
          /\ hist.uf.j \in PendingUncordon
    /\ hist.quiet /\ ~hist.faulty =>
          \A j \in hist.pend :
              /\ ~node[j].unsched
              /\ mach[j].owners = {newIS}
              /\ rep[newIS] >= hist.had[newIS]
              /\ \A s \in oldISs : rep[s] <= hist.had[s]

\* a run whose calls all succeeded has followed a failed uncordon
UncordonHealedWitness ==
    hist.quiet /\ ~hist.faulty /\ hist.pend # {}

\* what C10 compares: replicas, and labels, owner and schedulability
SameObjects ==
    /\ rep' = rep
    /\ mach' = mach
    /\ node' = node

\* a run follows a run with nothing in between
SecondRun == hist.quiet /\ hist'.runs = hist.runs + 1

\* C10 as stated: a run that follows a run with nothing in between leaves the
\* MachineSets' replicas and the Machines' and Nodes' labels, owner and
\* schedulability as that run left them
SecondRunChangesNothing == [][SecondRun => SameObjects]_vars

\* what a run leaves alone when it follows a run that returned no error:
\* everything but selected-for-update and update-successful
SameButHandshake ==
    /\ rep' = rep
    /\ \A i \in Machines :
          /\ mach'[i].owners = mach[i].owners
          /\ mach'[i].ms = mach[i].ms
          /\ mach'[i].cand = mach[i].cand
          /\ node'[i].cand = node[i].cand
          /\ node'[i].unsched = node[i].unsched

\* C10 amended: a run that follows a run that returned no error changes at most
\* the selected-for-update and update-successful labels, and a run that follows
\* two runs that returned no error changes nothing
ThirdRunChangesNothing ==
    [][/\ (SecondRun /\ hist.clean >= 1) => SameButHandshake
       /\ (SecondRun /\ hist.clean >= 2) => SameObjects]_vars

\* a third run has followed two runs without error, with a machine already
\* moved to the new MachineSet
ThirdRunWitness ==
    /\ hist.clean >= 3
    /\ \E i \in Machines : mach[i].ms = newIS

\* ------------------------------------------ machine controller: properties

\* the steps a step of the deletion flow hands over to
NextSteps(step) ==
    CASE step = "SetTerminating" -> {"GetVMStatus"}
      [] step = "GetVMStatus" -> {"InitiateDrain", "InitiateVMDeletion"}
      [] step = "InitiateDrain" -> {"DelVolumesAttachments",
                                    "InitiateVMDeletion"}
      [] step = "DelVolumesAttachments" -> {"InitiateVMDeletion"}
      [] step = "InitiateVMDeletion" -> {"InitiateNodeDeletion"}
      [] step = "InitiateNodeDeletion" -> {"InitiateFinalizerRemoval"}
      [] OTHER -> {}

\* the call of triggerDeletionFlow that has just returned went through
StepSucceeded ==
    /\ ret.op = "triggerDeletionFlow" /\ ret.step # ""
    /\ ~machine.exists \/ machine.lastOperation.state = "Processing"

\* C11: a call of triggerDeletionFlow on a Machine with its finalizer executes
\* the step the description names (and sets Terminating when the phase is
\* another); when the step goes through the description names a step that
\* follows it in the order GetVMStatus, InitiateDrain, DelVolumesAttachments,
\* InitiateVMDeletion, InitiateNodeDeletion, InitiateFinalizerRemoval, when
\* it fails the description keeps naming it; and the finalizer is removed
\* only after the VM deletion and the node deletion went through
DeletionFlowOrder ==
    [][DeletionFlow /\ machine.finalizers =>
          /\ ret'.step = IF machine.phase = "Terminating"
                         THEN machine.lastOperation.next ELSE "SetTerminating"
          /\ machine'.exists =>
                /\ machine'.phase = "Terminating"
                /\ machine'.finalizers
                /\ machine'.lastOperation.next \in
                       IF StepSucceeded' THEN NextSteps(ret'.step)
                       ELSE {ret'.step}
          /\ ~machine'.exists =>
                /\ ret'.step = "InitiateFinalizerRemoval"
                /\ {"InitiateVMDeletion", "InitiateNodeDeletion"}
                       \subseteq ret'.done
                /\ ~fakeDriver'.VMExists]_vars

\* the finalizer is gone after a deletion that went through every step
DeletionFlowWitness ==
    /\ ~machine.exists
    /\ ret.step = "InitiateFinalizerRemoval"
    /\ {DeletionSteps[i] : i \in 1..Len(DeletionSteps)} \subseteq ret.done

\* every driver call and every call of the target cluster succeeds
CallsSucceed == fakeDriver.Err = "" /\ ~clientFails

\* C12: a Machine with a deletion timestamp and its finalizer loses the
\* finalizer, when the calls of the driver and of the API server succeed
\* from some time on and the Machine is reconciled again and again; no more
\* than one reconcile for each step (and one to set Terminating) goes through
FinalizerRemoved ==
    /\ [](ret.reconciles <= Len(DeletionSteps) + 1)
    /\ <>[]CallsSucceed => ((Deleting /\ machine.finalizers) ~> ~machine.exists)

FinalizerRemovedWitness ==
    /\ ~machine.exists /\ ~machine.finalizers
    /\ ret.reconciles = Len(DeletionSteps) + 1

PhaseRank(phase) ==
    CASE phase = "" -> 0
      [] phase = "Pending" -> 1
      [] phase = "CrashLoopBackOff" -> 2
      [] phase = "Available" -> 3
      [] phase = "Running" -> 4
      [] phase = "Unknown" -> 5
      [] phase = "Failed" -> 6
      [] phase = "Terminating" -> 7

DriverFailed ==
    /\ CreationFlow
    /\ fakeDriver.Err # ""
    /\ ret'.calls \cap {"CreateMachine", "InitializeMachine"} # {}

\* C15: when the driver fails in triggerCreationFlow before the creation
\* timeout, the Machine is in CrashLoopBackOff with the code of the driver
\* error as errorCode, the retry is LongRetry for ResourceExhausted,
\* MediumRetry for Internal and ShortRetry for Uninitialized, and the error
\* of the driver is returned as it is
CreationErrorMapping ==
    [][DriverFailed /\ machine.creationAge <= MachineCreationTimeout =>
          /\ machine'.phase = "CrashLoopBackOff"
          /\ machine'.lastOperation.errorCode = fakeDriver.Err
          /\ ret'.err = fakeDriver.Err
          /\ fakeDriver.Err = "ResourceExhausted" => ret'.retry = "LongRetry"
          /\ fakeDriver.Err = "Internal" => ret'.retry = "MediumRetry"
          /\ fakeDriver.Err = "Uninitialized" => ret'.retry = "ShortRetry"]_vars

CreationErrorWitness ==
    /\ ret.op = "triggerCreationFlow" /\ ret.retry = "LongRetry"
    /\ machine.phase = "CrashLoopBackOff"
    /\ machine.lastOperation.errorCode = "ResourceExhausted"

\* C16: when the driver fails with Internal and the Machine is older than
\* MachineCreationTimeout the Machine becomes Failed, with MediumRetry; a
\* younger one goes to CrashLoopBackOff; and no Machine stays in
\* CrashLoopBackOff for ever
CreationTimesOut ==
    /\ [][DriverFailed /\ fakeDriver.Err = "Internal" =>
             /\ ret'.retry = "MediumRetry"
             /\ machine'.phase =
                    IF machine.creationAge > MachineCreationTimeout
                    THEN "Failed" ELSE "CrashLoopBackOff"]_vars
    /\ (machine.phase = "CrashLoopBackOff") ~>
           (machine.phase # "CrashLoopBackOff")

CreationTimeoutWitness ==
    /\ ret.op = "triggerCreationFlow" /\ ret.retry = "MediumRetry"
    /\ machine.phase = "Failed"
    /\ machine.lastOperation.errorCode = "Internal"
    /\ machine.creationAge > MachineCreationTimeout

\* the drain step runs and the update of the Node fails
DrainFails ==
    /\ DeletionFlow /\ machine.finalizers
    /\ machine.phase = "Terminating"
    /\ machine.lastOperation.next = "InitiateDrain"
    /\ machine.nodeLabel # "" /\ targetNode.exists /\ clientFails

\* C17: when the drain fails at InitiateDrain, before the drain timeout the
\* lastOperation is Failed and the description still names InitiateDrain;
\* after the timeout, or with the force-deletion label, it is Processing
\* and the description names DelVolumesAttachments; the retry is ShortRetry
DrainFailure ==
    [][DrainFails =>
          /\ ret'.retry = "ShortRetry"
          /\ ret'.err # ""
          /\ IF machine.deletionAge > MachineDrainTimeout \/ machine.force
             THEN /\ machine'.lastOperation.state = "Processing"
                  /\ machine'.lastOperation.next = "DelVolumesAttachments"
             ELSE /\ machine'.lastOperation.state = "Failed"
                  /\ machine'.lastOperation.next = "InitiateDrain"]_vars

\* the drain failed after the timeout, without the label, and was given up
DrainFailureWitness ==
    /\ ret.op = "triggerDeletionFlow" /\ ret.step = "InitiateDrain"
    /\ ret.err = "Failed to update node"
    /\ ~machine.force
    /\ machine.lastOperation.next = "DelVolumesAttachments"

\* the drain step runs and goes through
Drains ==
    /\ DeletionFlow /\ machine.finalizers
    /\ machine.phase = "Terminating"
    /\ machine.lastOperation.next = "InitiateDrain"
    /\ machine.nodeLabel # ""
    /\ ~(targetNode.exists /\ clientFails)

ForceDrained ==
    /\ machine.lastOperation.msg = "Force Drain successful"
    /\ machine.lastOperation.next = "DelVolumesAttachments"

NormallyDrained ==
    /\ machine.lastOperation.msg = "Drain successful"
    /\ machine.lastOperation.next = "InitiateVMDeletion"

\* Ready has not been True, or ReadonlyFilesystem has been True, for
\* nodeNotReadyDuration
UnhealthyForLong ==
    \/ /\ machine.conditions["Ready"] \in {"False", "Unknown"}
       /\ machine.readyAge > nodeNotReadyDuration
    \/ /\ machine.conditions["ReadonlyFilesystem"] = "True"
       /\ machine.rofsAge > nodeNotReadyDuration

\* C18, as stated: the drain at InitiateDrain is a force drain if and only
\* if Ready has not been True, or ReadonlyFilesystem has been True, for 5
\* minutes; otherwise it is a normal drain
ForceDrainRule ==
    [][Drains => /\ ForceDrained' <=> UnhealthyForLong
                 /\ NormallyDrained' <=> ~UnhealthyForLong]_vars

\* C18, amended: before the drain timeout the drain is a force drain if and
\* only if the Machine has been unhealthy that long or carries the
\* force-deletion label
ForceDrainRuleOrLabel ==
    [][Drains /\ machine.deletionAge <= MachineDrainTimeout =>
          /\ ForceDrained' <=> (UnhealthyForLong \/ machine.force)
          /\ NormallyDrained' <=> ~(UnhealthyForLong \/ machine.force)]_vars

\* a Machine with the label and a healthy node has been drained by force
ForceDrainWitness ==
    /\ ret.op = "triggerDeletionFlow" /\ ret.step = "InitiateDrain"
    /\ ForceDrained
    /\ machine.force /\ ~UnhealthyForLong
    /\ machine.deletionAge <= MachineDrainTimeout

\* C19: triggerDeletionFlow on a Machine without the finalizer returns an
\* error and LongRetry, leaves the Machine as it is, calls no driver and
\* touches no Node
MissingFinalizer ==
    [][DeletionFlow /\ ~machine.finalizers =>
          /\ ret'.retry = "LongRetry"
          /\ ret'.err = "Machine is missing finalizers"
          /\ ret'.calls = {}
          /\ machine' = machine
          /\ fakeDriver' = fakeDriver
          /\ targetNode' = targetNode]_vars

MissingFinalizerWitness ==
    /\ ret.op = "triggerDeletionFlow"
    /\ ret.err = "Machine is missing finalizers"
    /\ Deleting /\ ~machine.finalizers
    /\ targetNode.exists

\* C20: isHealthy is TRUE if and only if Ready is True and none of
\* ReadonlyFilesystem, KernelDeadlock, DiskPressure and NetworkUnavailable
\* that the Machine carries has a status other than False (True and Unknown
\* both make it unhealthy); a condition outside the list changes nothing
HealthyIff ==
    ret.op = "isHealthy" =>
       /\ ret.healthy <=>
             /\ machine.conditions["Ready"] = "True"
             /\ \A c \in {"ReadonlyFilesystem", "KernelDeadlock",
                          "DiskPressure", "NetworkUnavailable"} :
                    machine.conditions[c] \notin {"True", "Unknown"}
       /\ \A s \in ConditionStatus :
             isHealthy([machine EXCEPT !.conditions["MemoryPressure"] = s])
                 = ret.healthy

\* a Machine under memory pressure is found healthy
HealthyWitness ==
    /\ ret.op = "isHealthy" /\ ret.healthy
    /\ machine.conditions["MemoryPressure"] = "True"
    /\ machine.conditions["DiskPressure"] = "False"

\* ------------------------------------- properties of the rollout's steps

\* the old MachineSets a call recorded in snap was handed
OldOf(snap) == Range(Front(snap.order))

\* labelNodesBackingMachineSets was called and has returned without error
LabelsBacked == hist.lb.called /\ ~hist.lb.post.err

SkipUpdateFirst ==
    /\ (hist.lb.called /\ \E s \in OldOf(hist.lb.pre) : hist.lb.pre.lrep[s] > 0) =>
          /\ OldOf(hist.lb.pre) \subseteq hist.lb.pre.skip
          /\ \A k \in 1..Len(hist.log) : k > hist.lb.pre.log
    /\ (hist.quiet /\ ~hist.lb.called) => hist.err /\ hist.log = <<>>

\* a run has labeled an old MachineSet skip-update and selected a machine
SkipUpdateWitness ==
    /\ hist.lb.called
    /\ \E s \in OldOf(hist.lb.pre) : hist.lb.pre.lrep[s] > 0 /\ s \in skip
    /\ \E k \in 1..Len(hist.log) : hist.log[k].op = "select"

\* the first syncMachineSets of the run has returned without error
Synced == hist.sy.called /\ ~hist.sy.post.err

\* the machines the lister shows syncMachineSets for MachineSet s
Matching(s) == {i \in Machines : hist.sy.pre.lm[i].ms = s}

\* those of the new MachineSet that carry update-successful
UpdateSuccessful == {i \in Matching(newIS) : hist.sy.pre.lm[i].us}

\* C24: after syncMachineSets has returned without error, the new MachineSet
\* has its previous replicas + min(u, m - previous) when m > previous and u > 0
\* (m machines match its selector, u of them carry update-successful) and its
\* previous replicas otherwise; an old MachineSet with fewer machines than
\* replicas has as many replicas as machines; no old MachineSet was scaled up
SyncReplicas ==
    Synced =>
        /\ hist.sy.post.rep[newIS] =
              IF /\ Cardinality(Matching(newIS)) > hist.sy.pre.rep[newIS]
                 /\ UpdateSuccessful # {}
              THEN hist.sy.pre.rep[newIS]
                       + Min(Cardinality(UpdateSuccessful),
                             Cardinality(Matching(newIS)) - hist.sy.pre.rep[newIS])
              ELSE hist.sy.pre.rep[newIS]
        /\ \A s \in OldOf(hist.sy.pre) :
              /\ Cardinality(Matching(s)) < hist.sy.pre.rep[s] =>
                     hist.sy.post.rep[s] = Cardinality(Matching(s))
              /\ hist.sy.post.rep[s] <= hist.sy.pre.rep[s]

\* syncMachineSets has scaled the new MachineSet up and an old one down
SyncReplicasWitness ==
    /\ Synced
    /\ hist.sy.post.rep[newIS] > hist.sy.pre.rep[newIS]
    /\ \E s \in OldOf(hist.sy.pre) : hist.sy.post.rep[s] < hist.sy.pre.rep[s]

\* C25: after syncMachineSets has returned without error, no machine of the new
\* MachineSet carries candidate-for-update, selected-for-update or
\* update-successful, and no node of such a machine carries one of them or is
\* unschedulable
SyncLeavesNoLabel ==
    Synced =>
        \A i \in Matching(newIS) :
            /\ ~hist.sy.post.m[i].cand
            /\ ~hist.sy.post.m[i].sel
            /\ ~hist.sy.post.m[i].us
            /\ hist.sy.post.m[i].hasNode =>
                  /\ ~hist.sy.post.n[i].cand
                  /\ ~hist.sy.post.n[i].sel
                  /\ ~hist.sy.post.n[i].us
                  /\ ~hist.sy.post.n[i].unsched

\* the events of reconcileOldMachineSetsInPlace that label a machine
\* selected-for-update
SelectEvents ==
    {k \in (hist.ro.pre.log + 1)..hist.ro.post.log : hist.log[k].op = "select"}

\* the machines of MachineSet s the call has labeled
SelectedOf(s) ==
    {hist.log[k].x : k \in {k \in SelectEvents : hist.log[k].was.ms = s}}

\* MachineSet s was created before MachineSet t
CreatedBefore(s, t) ==
    \E a, b \in 1..Len(hist.ro.pre.order) :
        a < b /\ hist.ro.pre.order[a] = s /\ hist.ro.pre.order[b] = t

\* the machines the call has labeled in the MachineSets older than s
SelectedBefore(s) ==
    UNION {SelectedOf(t) : t \in {t \in OldOf(hist.ro.pre) : CreatedBefore(t, s)}}

\* totalReadyForUpdateCount of selectMachineForUpdate
SelectionQuota ==
    SumOver(hist.ro.pre.lavail, [s \in MachineSets |-> s])
        - Cardinality({i \in Machines : /\ hist.ro.pre.lm[i].ms # newIS
                                        /\ hist.ro.pre.lm[i].sel})
        - MinAvailable

\* C26: selectMachineForUpdate labels the machines of an older old MachineSet
\* before those of a newer one; it labels a machine of a MachineSet only if the
\* older old MachineSets have left some of the quota, and in each MachineSet at
\* most the minimum of its replicas and of what is left of the quota
SelectionInCreationOrder ==
    hist.ro.called =>
        /\ \A a, b \in SelectEvents :
              a < b => ~CreatedBefore(hist.log[b].was.ms, hist.log[a].was.ms)
        /\ \A s \in OldOf(hist.ro.pre) :
              /\ SelectedOf(s) # {} =>
                     Cardinality(SelectedBefore(s)) < SelectionQuota
              /\ SelectedOf(s) # {} =>
                     Cardinality(SelectedOf(s)) <=
                         Min(hist.ro.pre.lrep[s],
                             SelectionQuota - Cardinality(SelectedBefore(s)))

\* the machines a run that starts in this state with the input in labels
\* selected-for-update
SelectedBy(in) ==
    LET R == Run(St, in)
    IN  {R.log[k].x : k \in {k \in 1..Len(R.log) : R.log[k].op = "select"}}

\* C27: the machines a run labels selected-for-update are the same whatever
\* the order in which the lister returns the machines, and within an old
\* MachineSet they are the eligible machines with the lowest names
SelectionIndependentOfLister ==
    hist = NoRun =>
        \A a, b \in BaseInputs(St) :
            /\ SelectedBy(a) = SelectedBy(b)
            /\ \A i \in SelectedBy(a) : \A j \in Eligible(mach[i].ms) :
                  j < i => j \in SelectedBy(a)

\* the old MachineSets reconcileOldMachineSetsInPlace is handed: those the
\* caller holds with replicas
ActiveOld == {s \in OldOf(hist.ro.pre) : hist.ro.pre.lrep[s] > 0}

\* C30: reconcileOldMachineSetsInPlace, when it returns no error: with no
\* replicas in the old MachineSets it returns false and changes nothing; with
\* the new MachineSet at the deployment's replicas it sets every old
\* MachineSet to 0 replicas, labels no machine and returns true; otherwise it
\* returns true iff it has labeled a machine selected-for-update
OldReconcileCases ==
    (hist.ro.called /\ ~hist.ro.post.err) =>
        IF ActiveOld = {}
        THEN /\ ~hist.ro.post.scaled
             /\ hist.ro.post.rep = hist.ro.pre.rep
             /\ hist.ro.post.m = hist.ro.pre.m
             /\ hist.ro.post.n = hist.ro.pre.n
        ELSE IF hist.ro.pre.lrep[newIS] = DeploymentReplicas
        THEN /\ \A s \in OldOf(hist.ro.pre) : hist.ro.post.rep[s] = 0
             /\ LabeledSelected = {}
             /\ hist.ro.post.scaled
        ELSE hist.ro.post.scaled <=> LabeledSelected # {}

\* reconcileNewMachineSetInPlace has stopped at a failed ownership patch or at
\* a failed uncordon
StoppedEarly == hist.pf.called \/ hist.uf.called

\* the machines the call has moved from old MachineSet s
MovedFrom(s) == {i \in Moved : hist.rn.pre.m[i].ms = s}

\* every MachineSet's replicas account for the machines that match it: the new
\* one has at least as many replicas as machines, an old one at most as many
Accounted ==
    /\ Cardinality({i \in Machines : mach[i].ms = newIS}) <= rep[newIS]
    /\ \A s \in oldISs : Cardinality({i \in Machines : mach[i].ms = s}) >= rep[s]

\* C28: when reconcileNewMachineSetInPlace stops early, every machine is owned
\* by the MachineSet its labels match, and at most one machine was moved to the
\* new MachineSet without the replicas of the new and of the old MachineSet
\* following; a run that returns no error leaves no machine unaccounted for
AmbiguityBounded ==
    /\ StoppedEarly =>
          /\ \A i \in Machines :
                hist.rn.post.m[i].owners = {hist.rn.post.m[i].ms}
          /\ Cardinality(Moved)
                 - (hist.rn.post.rep[newIS] - hist.rn.pre.rep[newIS]) <= 1
          /\ \A s \in oldISs :
                Cardinality(MovedFrom(s))
                    - (hist.rn.pre.rep[s] - hist.rn.post.rep[s]) <= 1
    /\ (hist.quiet /\ ~hist.err) => Accounted

\* C29: a reconcile of a MachineSet between two calls of a run deletes no
\* machine the run is transferring, and a reconcile of an old MachineSet
\* creates no machine while the run transfers machines
NoLossInTransfer ==
    (hist.sets.called /\ hist.sets.moving # {}) =>
        /\ hist.sets.deleted \cap hist.sets.moving = {}
        /\ hist.sets.s # newIS => hist.sets.created = 0

\* ------------------------------- properties of the replicas and the selection

\* C33: no run sets the replicas of a MachineSet to a negative number
NonNegativeReplicas ==
    /\ \A s \in MachineSets : rep[s] >= 0
    /\ \A k \in 1..Len(hist.log) :
          hist.log[k].op \in {"up", "down"} => hist.log[k].now >= 0

\* the new MachineSet's replicas in a snapshot are within the deployment's
NewWithin(snap) == snap.rep[Last(snap.order)] <= DeploymentReplicas

\* C34: after reconcileNewMachineSetInPlace or syncMachineSets (the first call,
\* and the second, after which a run without error returns) has returned
\* without error, the replicas of the new MachineSet are at most the replicas
\* of the deployment
NewNeverOvershoots ==
    /\ (hist.sy.called /\ ~hist.sy.post.err) => NewWithin(hist.sy.post)
    /\ (hist.rn.called /\ ~hist.rn.post.err) => NewWithin(hist.rn.post)
    /\ (hist.quiet /\ ~hist.err) => rep[Last(order)] <= DeploymentReplicas

\* C35: when reconcileOldMachineSetsInPlace returns without error, the number
\* its calls of labelMachinesToSelectedForUpdate have returned is the number
\* of machines they have labeled selected-for-update, and that number is at
\* most availableMachineCount - minAvailable
SelectionCountExact ==
    (hist.ro.called /\ ~hist.ro.post.err) =>
        /\ hist.ro.total = Cardinality(SelectEvents)
        /\ Cardinality(SelectEvents) <=
               IF SelectionQuota > 0 THEN SelectionQuota ELSE 0

\* machine i of an old MachineSet is labeled selected-for-update and its Node
\* is not
HalfSelected(i) ==
    /\ mach[i].sel /\ mach[i].ms # newIS /\ mach[i].hasNode
    /\ ~node[i].sel

\* C36: a Machine that is labeled selected-for-update while its Node is not
\* does not stay so: a later run labels the Node (or the Machine loses the
\* label)
SelectionHandshakeCompletes ==
    \A i \in Machines : HalfSelected(i) ~> ~HalfSelected(i)

\* the machines the lister shows in the new MachineSet without a node label
Unlabeled(snap) ==
    {i \in Machines : snap.lm[i].ms = Last(snap.order) /\ ~snap.lm[i].hasNode}

\* the mutations of the first syncMachineSets of the run
SyncEvents == (hist.sy.pre.log + 1)..hist.sy.post.log

Selected(s) == {i \in Machines : mach[i].ms = s}

\* C38: a transferred Machine is counted once: the new MachineSet has at most
\* as many replicas as Machines, an old MachineSet at least as many, whatever
\* the listers have shown to the runs
CountedOnce ==
    /\ rep[newIS] <= Cardinality(Selected(newIS))
    /\ \A s \in oldISs : rep[s] >= Cardinality(Selected(s))

\* reconcileOldMachineSetsInPlace was called with the new MachineSet at the
\* deployment's replicas and replicas left in the old MachineSets: it takes the
\* branch that scales the old MachineSets to zero, and has scaled one
ScalesToZero ==
    /\ hist.ro.called
    /\ hist.ro.pre.lrep[Last(hist.ro.pre.order)] = DeploymentReplicas
    /\ \E s \in OldOf(hist.ro.pre) : hist.ro.pre.lrep[s] > 0
    /\ \E k \in (hist.ro.pre.log + 1)..hist.ro.post.log :
          hist.log[k].op = "down" /\ hist.log[k].now = 0

\* C39: reconcileOldMachineSetsInPlace sets the replicas of old MachineSets
\* to zero only when the new MachineSet has at least replicas - maxUnavailable
\* available replicas
ScaleToZeroWhenAvailable ==
    ScalesToZero =>
        hist.ro.pre.lavail[Last(hist.ro.pre.order)] >= MinAvailable

\* C40: the first syncMachineSets of a run makes a Node schedulable only if
\* its Machine is of the new MachineSet and carried update-successful when the
\* call started
UncordonOnlyUpdated ==
    hist.sy.called =>
        \A i \in Machines :
            (hist.sy.pre.n[i].unsched /\ ~hist.sy.post.n[i].unsched) =>
                /\ hist.sy.pre.lm[i].ms = Last(hist.sy.pre.order)
                /\ hist.sy.pre.lm[i].us

\* ------------------------------------------ reconciling a Machine again

\* triggerCreationFlow is called on a Machine that has its providerID and a
\* phase
CreationFlowAgain ==
    /\ machine.exists /\ machine.deletionAge = -1 /\ machine.finalizers
    /\ machine.providerID # ""
    /\ machine.phase \notin {"", "CrashLoopBackOff", "Failed"}
    /\ ReturnedCall("triggerCreationFlow", triggerCreationFlow(Call))

SpecMachineAgain ==
    InitMachine /\ [][NextMachine \/ CreationFlowAgain]_vars

\* the call that follows the call X with nothing in between
After(X) == [Call EXCEPT !.m = X.m, !.d = X.d, !.n = X.n]

\* the call Y has left the Machine, the VM and the Node as the call X has
SameCluster(X, Y) == X.m = Y.m /\ X.d = Y.d /\ X.n = Y.n

\* the VM is there and the Machine shows it
CreationSettled ==
    /\ machine.exists /\ machine.deletionAge = -1 /\ machine.finalizers
    /\ GetMachineStatus(fakeDriver) = ""
    /\ machine.providerID # "" /\ machine.nodeLabel # ""
    /\ machine.phase \notin {"", "CrashLoopBackOff"}

MaxReconciles == 6   \* steps of the deletion flow gone through before an overwrite

\* the description of a Machine in deletion is overwritten with a text that
\* names no step of the deletion flow
DescriptionOverwritten ==
    /\ Deleting /\ machine.finalizers /\ machine.phase = "Terminating"
    /\ machine.lastOperation.next # ""
    /\ ret.reconciles < MaxReconciles
    /\ machine' = [machine EXCEPT !.lastOperation =
                      LastOperation("Some random last op description", "",
                                    "Failed", "Delete", "")]
    /\ UNCHANGED <<fakeDriver, targetNode, clientFails, ret, dvars>>

SpecMachineDecode ==
    InitMachine /\ [][NextMachine \/ DescriptionOverwritten]_vars

\* a Machine in deletion whose description names none of the steps
Undecodable ==
    /\ Deleting /\ machine.finalizers /\ machine.phase = "Terminating"
    /\ machine.lastOperation.next \notin Range(DeletionSteps)

\* C31: triggerDeletionFlow on a Terminating Machine with its finalizer whose
\* description names no step of the deletion flow writes the description
\* GetVMStatus (state Processing, type Delete, phase Terminating) and returns
\* ShortRetry; it makes no call to the driver or to the Node, and the VM, the
\* Node and the finalizer stay
UndecodableRestarts ==
    [][DeletionFlow /\ Undecodable =>
          /\ machine'.exists /\ machine'.finalizers
          /\ machine'.phase = "Terminating"
          /\ machine'.lastOperation =
                 LastOperation("", "GetVMStatus", "Processing", "Delete", "")
          /\ ret'.retry = "ShortRetry"
          /\ ret'.calls = {}
          /\ fakeDriver' = fakeDriver /\ targetNode' = targetNode]_vars

\* the deletion flow had got past GetVMStatus with the VM there, and has just
\* been set back to it
UndecodableWitness ==
    /\ ret.op = "triggerDeletionFlow" /\ ret.step = "SetTerminating"
    /\ "GetVMStatus" \in ret.done
    /\ machine.exists /\ machine.lastOperation.next = "GetVMStatus"
    /\ fakeDriver.VMExists

\* ------------------------------------------- a Machine without its node label

\* the node label of the Machine is removed or emptied
NodeLabelRemoved ==
    /\ machine.exists /\ machine.nodeLabel # ""
    /\ machine' = [machine EXCEPT !.nodeLabel = ""]
    /\ UNCHANGED <<fakeDriver, targetNode, clientFails, ret, dvars>>

SpecMachineUnlabeled ==
    InitMachine /\ [][NextMachine \/ NodeLabelRemoved]_vars

\* C32: triggerDeletionFlow at the step InitiateDrain on a Machine without a
\* node label skips the drain: the next step is InitiateVMDeletion, state
\* Processing, ShortRetry, whether or not the Machine is due for a force drain,
\* and the Node is neither updated nor changed
SkipDrainFirst ==
    [][(/\ DeletionFlow /\ machine.finalizers /\ machine.phase = "Terminating"
        /\ machine.lastOperation.next = "InitiateDrain"
        /\ machine.nodeLabel = "") =>
          /\ machine'.phase = "Terminating"
          /\ machine'.lastOperation.next = "InitiateVMDeletion"
          /\ machine'.lastOperation.state = "Processing"
          /\ machine'.lastOperation.type = "Delete"
          /\ ret'.retry = "ShortRetry"
          /\ ret'.calls = {}
          /\ targetNode' = targetNode /\ fakeDriver' = fakeDriver]_vars

\* the drain has just been skipped for a Machine that has not been ready for
\* more than nodeNotReadyDuration and whose Node is there
SkipDrainWitness ==
    /\ ret.op = "triggerDeletionFlow" /\ ret.step = "InitiateDrain"
    /\ machine.nodeLabel = "" /\ machine.lastOperation.msg = "Skipping drain"
    /\ machine.conditions["Ready"] \in {"False", "Unknown"}
    /\ machine.readyAge > nodeNotReadyDuration
    /\ targetNode.exists /\ ~targetNode.terminationCondition

====
